---- MODULE Spec2Model ----
(***************************************************************************)
(* The Meetings view of the meeting-stack extension (src/background.ts):   *)
(* a list of calendar meetings merged from the remote calendar and the     *)
(* local overlay store (chrome.storage.local), reordered by the user and   *)
(* mutated optimistically.                                                 *)
(*                                                                         *)
(* React state is the VARIABLES; every event handler is one action (a      *)
(* handler runs to completion on the UI thread, and React applies the      *)
(* state updates of one handler together); every await / callback          *)
(* boundary of an asynchronous function is a step of a task in `tasks`.    *)
(* Values a handler or an async function closes over (the toggles and the  *)
(* selected range of the render that created it) are copied into the task  *)
(* when the handler runs.                                                  *)
(*                                                                         *)
(* Three specifications share the state and the steps of the fetch:        *)
(*   Spec       the list: range selection, toggles, reorders, response     *)
(*              changes and cancellations, the notes editor closed;         *)
(*   NotesSpec  the notes editor (NotesModal, src/unnamed/part_002) on a   *)
(*              loaded list of a calendar with a recurring series;          *)
(*   PureSpec   the pure functions (reorder, projection, storage keys)     *)
(*              applied to arguments drawn from bounded sets.               *)
(***************************************************************************)
EXTENDS Integers, Sequences, FiniteSets, TLC

\* ------------------------------------------------------------------ bounds

\* Number of user actions (range selections, toggle changes, reorders, response
\* and delete clicks) handled in one session of the view. At most that many
\* asynchronous operations, plus the fetch of the first render, are in flight.
MaxActions == 2

\* The wall-clock day the session runs on (day 0 is a Sunday).
Today == 3

\* ---------------------------------------------------------------- constants

\* Number.MAX_SAFE_INTEGER, the rank of a meeting without a stored rank.
\* Scaled to 32 bits (the largest integer TLC has); only its being larger
\* than any stored rank is used.
MAX_SAFE_INTEGER == 2147483647

RangeLabels == {"This Week", "Next Week"}

ResponseStatus == {"accepted", "declined", "needsAction", "tentative"}

\* The three response buttons of the Actions column.
Responses == {"accepted", "tentative", "declined"}

\* --------------------------------------------------------- general helpers

Image(f) == {f[x] : x \in DOMAIN f}

EmptyMap == [x \in {} |-> 0]

IdsOf(ms) == [i \in DOMAIN ms |-> ms[i].id]

\* Array.prototype.splice(start, deleteCount, ...items) on a 0-based index,
\* as applied by immutability-helper's $splice; start is clamped to length.
Splice(s, start, deleteCount, items) ==
  LET st == IF start > Len(s) THEN Len(s) ELSE start
      dc == IF st + deleteCount > Len(s) THEN Len(s) - st ELSE deleteCount
  IN  SubSeq(s, 1, st) \o items \o SubSeq(s, st + dc + 1, Len(s))

\* --------------------------------------------------------------- DATE_RANGES

\* A Date in local time: the day, counted from a Sunday (day 0), and the
\* milliseconds since 00:00:00.000 of that day.
Date(day, ms) == [day |-> day, ms |-> ms]

\* A week that starts on Monday: the day of the week counted from Monday.
getDayFromMonday(date) == (date.day + 6) % 7

\* Date.prototype.getDay(): 0 for Sunday to 6 for Saturday.
getDay(date) == date.day % 7

\* date.setDate(date.getDate() + days): the time of day is kept, and a day
\* of the month outside the month carries into the neighbouring month.
setDate(date, days) == [date EXCEPT !.day = @ + days]

\* date.setHours(hours, min, sec, ms)
setHours(date, hours, min, sec, ms) ==
  [date EXCEPT !.ms = ((hours * 60 + min) * 60 + sec) * 1000 + ms]

\* DATE_RANGES[].getDateRange() evaluated at `now` (lines 57-68 and 72-83).
getDateRangeAt(label, now) ==
  LET start == setHours(setDate(now, 0 - getDay(now)
                                       + (IF label = "This Week" THEN 1 ELSE 8)),
                        0, 0, 0, 0)
      end   == setHours(setDate(start, 4), 23, 59, 59, 999)
  IN  [start |-> start, end |-> end]

\* The range as the session uses it, in days: the local day of the start
\* (at 00:00:00.000) and of the end (at 23:59:59.999), evaluated on Today.
getDateRange(label) ==
  LET range == getDateRangeAt(label, Date(Today, 0))
  IN  [start |-> range.start.day, end |-> range.end.day]

\* The time zone of the browser: the hours to add to local time to get UTC
\* (Date.prototype.getTimezoneOffset() / 60; negative east of Greenwich).
VARIABLES tz

\* The date of the instant in local time.
toISODateLocal(start) == start

\* start.toISOString().split('T')[0]: the date of the instant in UTC. A Date
\* is the local day it was set to, at 00:00:00.000 local time (setHours(0, 0,
\* 0, 0), lines 61 and 76).
toISODate(start) == (start * 24 + tz) \div 24

\* A template string `prefix${value}` is the pair of its two parts.
getStorageKey(start) == <<"meetingOrder_", toISODate(start)>>

getNoteStorageKey(meetingId) == <<"meetingNote_", meetingId>>

getSeriesNoteStorageKey(recurringEventId) == <<"seriesNote_", recurringEventId>>

\* ------------------------------------------------------------ remote calendar

NoAttendees == <<>>

\* The value of a property that is absent (JavaScript's undefined).
undefined == "undefined"

Attendee(self, status) == [self |-> self, responseStatus |-> status]

\* The events of the remote calendar when the view is opened. A and B are
\* ordinary meetings, C has the viewer as its only attendee, E is marked free
\* (transparent), N is not a meeting (eventType other than 'default'), D is
\* a meeting of the following week whose attendee list does not have the
\* viewer. `day` is start.dateTime and `endTime` end.dateTime, in days.
InitialEvents ==
  [A |-> [id |-> "A", summary |-> "aa", endTime |-> 1,
          recurringEventId |-> undefined, eventType |-> "default", transparency |-> "opaque",
          day |-> 1, organizer |-> [self |-> TRUE],
          attendees |-> <<Attendee(TRUE, "accepted"), Attendee(FALSE, "accepted")>>],
   B |-> [id |-> "B", summary |-> "bb", endTime |-> 2,
          recurringEventId |-> undefined, eventType |-> "default", transparency |-> "opaque",
          day |-> 2, organizer |-> [self |-> FALSE],
          attendees |-> <<Attendee(FALSE, "accepted"), Attendee(TRUE, "needsAction")>>],
   C |-> [id |-> "C", summary |-> "cc", endTime |-> 3,
          recurringEventId |-> undefined, eventType |-> "default", transparency |-> "opaque",
          day |-> 3, organizer |-> [self |-> TRUE],
          attendees |-> NoAttendees],
   E |-> [id |-> "E", summary |-> "ee", endTime |-> 4,
          recurringEventId |-> undefined, eventType |-> "default", transparency |-> "transparent",
          day |-> 4, organizer |-> [self |-> FALSE],
          attendees |-> <<Attendee(FALSE, "accepted"), Attendee(TRUE, "accepted")>>],
   N |-> [id |-> "N", summary |-> "nn", endTime |-> 5,
          recurringEventId |-> undefined, eventType |-> "focusTime", transparency |-> "opaque",
          day |-> 5, organizer |-> [self |-> TRUE],
          attendees |-> NoAttendees],
   D |-> [id |-> "D", summary |-> "dd", endTime |-> 8,
          recurringEventId |-> undefined, eventType |-> "default", transparency |-> "opaque",
          day |-> 8, organizer |-> [self |-> FALSE],
          attendees |-> <<Attendee(FALSE, "tentative"), Attendee(FALSE, "accepted")>>]]

EventIds == DOMAIN InitialEvents

\* GET .../events?timeMin=start&timeMax=end&orderBy=startTime&singleEvents=true:
\* the events of the window, in ascending start time.
RECURSIVE ByStartTime(_)
ByStartTime(es) ==
  IF es = {} THEN <<>>
  ELSE LET first == CHOOSE e \in es : \A o \in es : e.day <= o.day
       IN  <<first>> \o ByStartTime(es \ {first})

ListEvents(evs, start, end) ==
  ByStartTime({e \in Image(evs) : start <= e.day /\ e.day <= end})

\* PATCH .../events/{id} with the body built from the event read by the GET:
\* the attendee list of the body replaces the one of the event; a body without
\* attendees, or an event that no longer exists, changes nothing.
PatchEvent(evs, id, body) ==
  IF id \in DOMAIN evs /\ body.attendees # NoAttendees
    THEN [evs EXCEPT ![id].attendees = body.attendees]
    ELSE evs

\* DELETE .../events/{id}
DeleteEvent(evs, id) == [i \in DOMAIN evs \ {id} |-> evs[i]]

\* ------------------------------------------------------- overlay store (order)

\* storeMeetingOrder: Object.fromEntries(meetings.map((m, index) => [m.id, index]));
\* for an id that occurs more than once the last entry wins.
OrderMap(ms) ==
  [id \in Image(IdsOf(ms)) |->
     (CHOOSE i \in DOMAIN ms :
        ms[i].id = id /\ \A j \in DOMAIN ms : ms[j].id = id => j <= i) - 1]

\* getMeetingOrder: result[getStorageKey(start)] || {}
getMeetingOrder(store, start) ==
  IF getStorageKey(start) \in DOMAIN store THEN store[getStorageKey(start)]
                                           ELSE EmptyMap

\* A write that merges the new entries into the map already stored.
StorageMerge(store, key, value) ==
  [k \in DOMAIN store \cup {key} |->
     IF k # key THEN store[k]
     ELSE IF key \notin DOMAIN store THEN value
     ELSE [id \in DOMAIN store[key] \cup DOMAIN value |->
             IF id \in DOMAIN value THEN value[id] ELSE store[key][id]]]

\* chrome.storage.local.set({ [key]: value })
StorageSet(store, key, value) ==
  [k \in DOMAIN store \cup {key} |-> IF k = key THEN value ELSE store[k]]

\* ------------------------------------------------------ merge and projection

\* The visibility toggles as seen by one render of the component.
Toggles(single, declined, free) ==
  [showSingleAttendee |-> single, showDeclined |-> declined, showFree |-> free]

\* A filter that also drops the first item it would show.
filterMeetingsDropsFirst(items, tg) ==
  LET isDefault(item)  == item.eventType = "default"
      isBusy(item)     == item.transparency # "transparent" \/ tg.showFree
      hasGuests(item)  == tg.showSingleAttendee
                          \/ (item.attendees # NoAttendees /\ Len(item.attendees) > 1)
      kept == SelectSeq(SelectSeq(SelectSeq(items, isDefault), isBusy), hasGuests)
  IN  IF kept = <<>> THEN kept ELSE Tail(kept)

\* Lines 516-521; the toggles are those of the render the function belongs to.
filterMeetings(items, tg) ==
  LET isDefault(item)  == item.eventType = "default"
      isBusy(item)     == item.transparency # "transparent" \/ tg.showFree
      hasGuests(item)  == tg.showSingleAttendee
                          \/ (item.attendees # NoAttendees /\ Len(item.attendees) > 1)
  IN  SelectSeq(SelectSeq(SelectSeq(items, isDefault), isBusy), hasGuests)

\* A projection that takes the first attendee for the viewer.
selfResponseStatusFirst(item) ==
  IF item.attendees = NoAttendees THEN "needsAction"
  ELSE item.attendees[1].responseStatus

\* item.attendees?.find(a => a.self)?.responseStatus || 'needsAction'
selfResponseStatus(item) ==
  LET selves == {i \in DOMAIN item.attendees : item.attendees[i].self}
  IN  IF selves = {} THEN "needsAction"
      ELSE item.attendees[CHOOSE i \in selves : \A j \in selves : i <= j].responseStatus

\* result[key] of chrome.storage.local.get(key)
StorageGet(store, key) == IF key \in DOMAIN store THEN store[key] ELSE undefined

\* The object built for one item (lines 277-302 and 343-368): the notes are
\* read from the store (lines 279-289), the other fields come from the item
\* and the stored order.
toMeeting(item, storedOrder, store) ==
  [id |-> item.id,
   summary |-> item.summary,
   startTime |-> item.day,
   endTime |-> item.endTime,
   responseStatus |-> selfResponseStatus(item),
   organizer |-> item.organizer,
   order |-> IF item.id \in DOMAIN storedOrder THEN storedOrder[item.id]
                                               ELSE MAX_SAFE_INTEGER,
   recurringEventId |-> item.recurringEventId,
   notes |-> StorageGet(store, getNoteStorageKey(item.id)),
   seriesNotes |-> IF item.recurringEventId # undefined
                     THEN StorageGet(store, getSeriesNoteStorageKey(item.recurringEventId))
                     ELSE undefined]

\* A comparator with its operands exchanged.
compareOrderReversed(a, b) == b.order - a.order

\* The comparator of the sort: (a, b) => a.order - b.order
compareOrder(a, b) == a.order - b.order

\* A sort that is not stable: an element goes in front of the elements it
\* compares equal to.
RECURSIVE SortTiesReversed(_)
SortTiesReversed(ms) ==
  IF ms = <<>> THEN <<>>
  ELSE LET last   == ms[Len(ms)]
           sorted == SortTiesReversed(SubSeq(ms, 1, Len(ms) - 1))
           k      == Cardinality({i \in DOMAIN sorted : compareOrder(sorted[i], last) < 0})
       IN  SubSeq(sorted, 1, k) \o <<last>> \o SubSeq(sorted, k + 1, Len(sorted))

\* Array.prototype.sort is stable: an element goes behind every element that
\* does not compare greater than it.
RECURSIVE SortByOrder(_)
SortByOrder(ms) ==
  IF ms = <<>> THEN <<>>
  ELSE LET last   == ms[Len(ms)]
           sorted == SortByOrder(SubSeq(ms, 1, Len(ms) - 1))
           k      == Cardinality({i \in DOMAIN sorted : compareOrder(sorted[i], last) <= 0})
       IN  SubSeq(sorted, 1, k) \o <<last>> \o SubSeq(sorted, k + 1, Len(sorted))

\* Declined filter of lines 306-307.
declinedFilter(ms, tg) ==
  LET keep(m) == tg.showDeclined \/ m.responseStatus # "declined"
  IN  SelectSeq(ms, keep)

\* What fetchMeetings and fetchMeetingsQuietly make of a list response
\* (lines 276-308, repeated at 342-374). The notes of the items are read from
\* the store between the arrival of the response and the display of the list;
\* the reads are taken together, as of the store at the display.
mergeMeetings(items, storedOrder, tg, store) ==
  LET kept == filterMeetings(items, tg)
      meetingsWithNotes == [i \in DOMAIN kept |-> toMeeting(kept[i], storedOrder, store)]
  IN  SortByOrder(declinedFilter(meetingsWithNotes, tg))

\* ---------------------------------------------------------------------- state

VARIABLES
  meetings,            \* useState<Meeting[]>([])
  loading,             \* useState(true)
  updating,            \* useState(false)
  selectedRange,       \* useState(DATE_RANGES[0]), by label
  showSingleAttendee,  \* useState(false)
  showDeclined,        \* useState(false)
  showFree,            \* useState(false)
  storage,             \* chrome.storage.local: key -> value
  events,              \* the remote calendar: event id -> event
  tasks,               \* the asynchronous operations in flight: task -> how many
  viewStart,           \* history: start of the window whose fetch produced `meetings`
  written,             \* history: key -> ids of the list of the last write that landed
  handled,             \* history: number of user actions handled so far
  selectedMeeting,     \* useState<Meeting | null>(null)
  isNotesModalOpen,    \* useState(false)
  noteDraft,           \* NotesModal: useState(meeting.notes || '')
  seriesNoteDraft,     \* NotesModal: useState(meeting.seriesNotes || '')
  call,                \* PureSpec: the function applied and its arguments
  ret,                 \* PureSpec: what it returned
  hasToken,            \* AuthWrapper: useState(false)
  errors               \* history: the errors logged by console.error('Logout failed:', error)

vars == <<meetings, loading, updating, selectedRange, showSingleAttendee,
          showDeclined, showFree, storage, events, tasks, viewStart, written, handled,
          selectedMeeting, isNotesModalOpen, noteDraft, seriesNoteDraft, call, ret, tz,
          hasToken, errors>>

view    == <<meetings, loading, updating, viewStart, written, handled>>
toggles == <<showSingleAttendee, showDeclined, showFree>>
editor  == <<selectedMeeting, isNotesModalOpen, noteDraft, seriesNoteDraft>>
auth    == <<hasToken, errors>>

\* What no step of the list view changes: the notes editor (closed), the
\* time zone, the variables of PureSpec, and the state of AuthWrapper.
aside   == <<editor, call, ret, tz, auth>>

\* AuthWrapper renders its children, the list view, only while hasToken is
\* set (src/unnamed/part_002 lines 357-361).
Authorized == hasToken = TRUE /\ errors = <<>>

NoView == 0 - 1

\* The toggles closed over by the functions of the current render.
CurrentToggles == Toggles(showSingleAttendee, showDeclined, showFree)

\* The table (rows, drag handles, action buttons) is rendered only when the
\* list is loaded and not empty (lines 701-753), and it lies under the
\* "Updating..." overlay while `updating` is set (lines 709-723).
TableRendered == ~loading /\ Len(meetings) > 0 /\ ~updating

\* `tasks` is a multiset: two operations in the same state are two entries.
NoTasks == [t \in {} |-> 0]

\* A call of fetchMeetings that abandons the fetches still in flight.
AddSuperseding(ts, t) ==
  LET kept == IF t.kind = "fetchMeetings"
                THEN {x \in DOMAIN ts : x.kind # "fetchMeetings"}
                ELSE DOMAIN ts
  IN  IF t \in kept THEN [x \in kept |-> IF x = t THEN ts[x] + 1 ELSE ts[x]]
      ELSE [x \in kept \cup {t} |-> IF x = t THEN 1 ELSE ts[x]]

\* An asynchronous call is made: it joins the operations in flight; nothing
\* in the code takes a call back (no AbortController, no request counter).
Add(ts, t) ==
  IF t \in DOMAIN ts THEN [ts EXCEPT ![t] = @ + 1]
  ELSE [x \in DOMAIN ts \cup {t} |-> IF x = t THEN 1 ELSE ts[x]]

Remove(ts, t) ==
  IF ts[t] > 1 THEN [ts EXCEPT ![t] = @ - 1]
  ELSE [x \in DOMAIN ts \ {t} |-> ts[x]]

\* Task t goes on as task u.
Step(ts, t, u) == Add(Remove(ts, t), u)

\* A user action is handled.
Handle ==
  /\ handled < MaxActions
  /\ handled' = handled + 1

\* The list last written under the key of a window (history).
writtenFor(w, start) ==
  IF getStorageKey(start) \in DOMAIN w THEN w[getStorageKey(start)] ELSE <<>>

\* History that is not kept.
Forgotten == [alone |-> FALSE]

\* History: the state an operation was called in, kept for an operation that
\* was called with nothing else in flight (`alone`); `count` is the number of
\* user actions handled when the call has returned. A mutation forgets it
\* when its callback has got a token.
Before(alone, count) ==
  IF alone
    THEN [meetings |-> meetings, loading |-> loading, updating |-> updating,
          storage |-> storage, alone |-> TRUE, handled |-> count]
    ELSE Forgotten

\* `readList` is history: the list whose write the stored order read by the
\* task comes from. `before` is history too.
FetchTask(range, tg, before) ==
  [kind |-> "fetchMeetings", pc |-> "getMeetingOrder", range |-> range, tg |-> tg,
   storedOrder |-> EmptyMap, readList |-> <<>>, items |-> <<>>, before |-> before]

UpdateTask(meetingId, response, range, tg, before) ==
  [kind |-> "updateMeetingResponse", pc |-> "getAuthToken", meetingId |-> meetingId,
   response |-> response, range |-> range, tg |-> tg,
   updatedEvent |-> [attendees |-> NoAttendees],
   storedOrder |-> EmptyMap, readList |-> <<>>, items |-> <<>>, before |-> before]

CancelTask(meetingId, before) ==
  [kind |-> "cancelMeeting", pc |-> "getAuthToken", meetingId |-> meetingId,
   before |-> before]

\* `list` is history: the ids of the list the map was built from.
StoreTask(key, orderMap, list) ==
  [kind |-> "storeMeetingOrder", pc |-> "set", key |-> key, orderMap |-> orderMap,
   list |-> list]

\* selectedMeeting is null or a meeting: the empty sequence or the sequence of
\* that one meeting.
null == <<>>

\* No function of PureSpec has been applied.
NoCall == [op |-> "none"]

\* The notes editor is not mounted (line 797: selectedMeeting is null); the
\* drafts are state of NotesModal and do not exist then.
EditorClosed ==
  /\ selectedMeeting = null
  /\ isNotesModalOpen = FALSE
  /\ noteDraft = undefined
  /\ seriesNoteDraft = undefined

\* The time zone the sessions of Spec and NotesSpec run in: UTC+2.
SessionZone == 0 - 2

\* The list an earlier session left stored for this week when the view is
\* opened: none (first use), or [C, B] (the toggles are not stored and start
\* unchecked, so C is hidden at first).
PriorLists == {<<>>, <<"C", "B">>}

Init ==
  /\ tz = SessionZone
  /\ meetings = <<>>
  /\ loading = TRUE
  /\ updating = FALSE
  /\ selectedRange = "This Week"
  /\ showSingleAttendee = FALSE
  /\ showDeclined = FALSE
  /\ showFree = FALSE
  /\ \E prior \in PriorLists :
       LET key == getStorageKey(getDateRange("This Week").start)
       IN  IF prior = <<>>
             THEN storage = [k \in {} |-> EmptyMap] /\ written = [k \in {} |-> <<>>]
             ELSE /\ storage = [k \in {key} |-> OrderMap([i \in DOMAIN prior |-> [id |-> prior[i]]])]
                  /\ written = [k \in {key} |-> prior]
  /\ events = InitialEvents
  \* the effect of the first render has called fetchMeetings (lines 248-250)
  /\ tasks = Add(NoTasks,
                 FetchTask(getDateRange("This Week"), Toggles(FALSE, FALSE, FALSE),
                           Before(TRUE, 0)))
  /\ viewStart = NoView
  /\ handled = 0
  /\ EditorClosed
  /\ call = NoCall
  /\ ret = NoCall
  /\ Authorized

\* ------------------------------------------------------------- user handlers

\* The <select> onChange (lines 655-658) and the effect on selectedRange
\* (lines 248-250): the effect runs in the render that has the new range and
\* calls that render's fetchMeetings, which sets loading (line 253).
SelectRange(label) ==
  /\ label # selectedRange
  /\ Handle
  /\ selectedRange' = label
  /\ loading' = TRUE
  /\ tasks' = Add(tasks, FetchTask(getDateRange(label), CurrentToggles,
                                     Before(tasks = NoTasks, handled + 1)))
  /\ UNCHANGED <<aside, meetings, updating, toggles, storage, events, viewStart, written>>

\* The three checkbox handlers (lines 670-673, 681-684, 692-695): the state
\* setter is called and then fetchMeetings of the render the handler belongs
\* to, whose filters still see the toggles of that render.
ToggleSingleAttendee ==
  /\ Handle
  /\ showSingleAttendee' = ~showSingleAttendee
  /\ loading' = TRUE
  /\ tasks' = Add(tasks, FetchTask(getDateRange(selectedRange), CurrentToggles,
                                     Before(tasks = NoTasks, handled + 1)))
  /\ UNCHANGED <<aside, meetings, updating, selectedRange, showDeclined, showFree,
                 storage, events, viewStart, written>>

ToggleDeclined ==
  /\ Handle
  /\ showDeclined' = ~showDeclined
  /\ loading' = TRUE
  /\ tasks' = Add(tasks, FetchTask(getDateRange(selectedRange), CurrentToggles,
                                     Before(tasks = NoTasks, handled + 1)))
  /\ UNCHANGED <<aside, meetings, updating, selectedRange, showSingleAttendee, showFree,
                 storage, events, viewStart, written>>

ToggleFree ==
  /\ Handle
  /\ showFree' = ~showFree
  /\ loading' = TRUE
  /\ tasks' = Add(tasks, FetchTask(getDateRange(selectedRange), CurrentToggles,
                                     Before(tasks = NoTasks, handled + 1)))
  /\ UNCHANGED <<aside, meetings, updating, selectedRange, showSingleAttendee, showDeclined,
                 storage, events, viewStart, written>>

\* A handler that leaves the list alone until the calendar has answered.
optimisticResponseSkipped(prevMeetings, meetingId, response) == prevMeetings

\* Lines 384-390.
optimisticResponse(prevMeetings, meetingId, response) ==
  [i \in DOMAIN prevMeetings |->
     IF prevMeetings[i].id = meetingId
       THEN [prevMeetings[i] EXCEPT !.responseStatus = response]
       ELSE prevMeetings[i]]

\* Lines 439-441.
optimisticRemoval(prevMeetings, meetingId) ==
  LET keep(meeting) == meeting.id # meetingId
  IN  SelectSeq(prevMeetings, keep)

\* A handler without the finally block.
setUpdatingCallsNoFinally == <<TRUE>>

\* The calls of setUpdating made before the handler of a mutation returns:
\* line 382 / 437, then the finally block (lines 431-433, 459-461), which runs
\* as soon as getAuthToken has been called, not when its callback has finished.
\* The calls belong to one handler run; the render that follows sees the last.
setUpdatingCalls == <<TRUE, FALSE>>

\* A flag that is still set when the handler has returned.
updatingUntilDone == TRUE

\* What `updating` is in the render that follows the handler.
updatingAfterHandler == setUpdatingCalls[Len(setUpdatingCalls)]

\* A response button of a row (lines 601, 610, 619): updateMeetingResponse up
\* to the return of the handler (lines 381-392, 431-433). The token callback
\* runs later, as the task.
updateMeetingResponse(row, response) ==
  /\ TableRendered
  /\ row \in DOMAIN meetings
  /\ Handle
  /\ meetings' = optimisticResponse(meetings, meetings[row].id, response)
  /\ updating' = updatingAfterHandler
  /\ tasks' = Add(tasks, UpdateTask(meetings[row].id, response,
                                      selectedRange, CurrentToggles,
                                      Before(tasks = NoTasks, handled + 1)))
  /\ UNCHANGED <<aside, loading, selectedRange, toggles, storage, events, viewStart, written>>

\* A delete control on every row.
cancelMeetingAnyRow(row) ==
  /\ TableRendered
  /\ row \in DOMAIN meetings
  /\ Handle
  /\ meetings' = optimisticRemoval(meetings, meetings[row].id)
  /\ updating' = updatingAfterHandler
  /\ tasks' = Add(tasks, CancelTask(meetings[row].id,
                                      Before(tasks = NoTasks, handled + 1)))
  /\ UNCHANGED <<aside, loading, selectedRange, toggles, storage, events, viewStart, written>>

\* The delete control, rendered for rows with organizer.self (lines 626-633):
\* cancelMeeting up to the return of the handler (lines 436-443, 459-461).
cancelMeeting(row) ==
  /\ TableRendered
  /\ row \in DOMAIN meetings
  /\ meetings[row].organizer.self
  /\ Handle
  /\ meetings' = optimisticRemoval(meetings, meetings[row].id)
  /\ updating' = updatingAfterHandler
  /\ tasks' = Add(tasks, CancelTask(meetings[row].id,
                                      Before(tasks = NoTasks, handled + 1)))
  /\ UNCHANGED <<aside, loading, selectedRange, toggles, storage, events, viewStart, written>>

\* A drag that exchanges the two rows.
moveRowSwapped(prevMeetings, dragIndex, hoverIndex) ==
  [i \in DOMAIN prevMeetings |->
     IF i = dragIndex + 1 THEN prevMeetings[hoverIndex + 1]
     ELSE IF i = hoverIndex + 1 THEN prevMeetings[dragIndex + 1]
     ELSE prevMeetings[i]]

\* The result of moveRow's update(prevMeetings, {$splice: [[dragIndex, 1],
\* [hoverIndex, 0, prevMeetings[dragIndex]]]}) (lines 466-471); 0-based indices.
moveRowResult(prevMeetings, dragIndex, hoverIndex) ==
  Splice(Splice(prevMeetings, dragIndex, 1, <<>>),
         hoverIndex, 0, <<prevMeetings[dragIndex + 1]>>)

\* A move to the top that leaves the meeting at its old place too.
moveToTopResultKeepsCopy(prevMeetings, index) ==
  <<prevMeetings[index + 1]>> \o prevMeetings

\* Lines 492-496.
moveToTopResult(prevMeetings, index) ==
  <<prevMeetings[index + 1]>>
    \o [i \in 1..(Len(prevMeetings) - 1) |->
          IF i <= index THEN prevMeetings[i] ELSE prevMeetings[i + 1]]

\* A move to the bottom that exchanges the meeting with the last one.
moveToBottomResultSwapped(prevMeetings, index) ==
  [i \in DOMAIN prevMeetings |->
     IF i = index + 1 THEN prevMeetings[Len(prevMeetings)]
     ELSE IF i = Len(prevMeetings) THEN prevMeetings[index + 1]
     ELSE prevMeetings[i]]

\* Lines 505-509.
moveToBottomResult(prevMeetings, index) ==
  [i \in 1..(Len(prevMeetings) - 1) |->
     IF i <= index THEN prevMeetings[i] ELSE prevMeetings[i + 1]]
    \o <<prevMeetings[index + 1]>>

\* The bucket a reorder writes to: getStorageKey of the start of
\* selectedRange.getDateRange(), selectedRange being the one of the render
\* that created the callback (lines 472-473, 476).
reorderKey(label) == getStorageKey(getDateRange(label).start)

\* storeMeetingOrder up to its await (lines 107-111): the map is built and
\* chrome.storage.local.set is called; the write lands as a task.
storeMeetingOrder(ms, key) == StoreTask(key, OrderMap(ms), IdsOf(ms))

\* A drag over another row (lines 155-172 call moveRow with two different
\* indices of rendered rows), lines 464-476.
moveRow(dragIndex, hoverIndex) ==
  /\ TableRendered
  /\ dragIndex \in 0..(Len(meetings) - 1)
  /\ hoverIndex \in 0..(Len(meetings) - 1)
  /\ dragIndex # hoverIndex
  /\ Handle
  /\ meetings' = moveRowResult(meetings, dragIndex, hoverIndex)
  /\ tasks' = Add(tasks, storeMeetingOrder(meetings', reorderKey(selectedRange)))
  /\ UNCHANGED <<aside, loading, updating, selectedRange, toggles, storage, events, viewStart, written>>

\* Lines 490-501, called with row.index (line 589).
moveToTop(index) ==
  /\ TableRendered
  /\ index \in 0..(Len(meetings) - 1)
  /\ Handle
  /\ meetings' = moveToTopResult(meetings, index)
  /\ tasks' = Add(tasks, storeMeetingOrder(meetings', reorderKey(selectedRange)))
  /\ UNCHANGED <<aside, loading, updating, selectedRange, toggles, storage, events, viewStart, written>>

\* Lines 503-514, called with row.index (line 595).
moveToBottom(index) ==
  /\ TableRendered
  /\ index \in 0..(Len(meetings) - 1)
  /\ Handle
  /\ meetings' = moveToBottomResult(meetings, index)
  /\ tasks' = Add(tasks, storeMeetingOrder(meetings', reorderKey(selectedRange)))
  /\ UNCHANGED <<aside, loading, updating, selectedRange, toggles, storage, events, viewStart, written>>

\* chrome.storage.local.set of storeMeetingOrder completes (line 111): the
\* value under the key is replaced.
storeMeetingOrderDone(t) ==
  /\ t.kind = "storeMeetingOrder"
  /\ storage' = StorageSet(storage, t.key, t.orderMap)
  /\ written' = [k \in DOMAIN written \cup {t.key} |->
                   IF k = t.key THEN t.list ELSE written[k]]
  /\ tasks' = Remove(tasks, t)
  /\ UNCHANGED <<aside, meetings, loading, updating, viewStart, handled,
                 selectedRange, toggles, events>>

\* -------------------------------------------------------------- fetchMeetings

\* await getMeetingOrder(start) returns (line 255); getAuthToken is called.
fetchMeetingsOrder(t) ==
  /\ t.kind = "fetchMeetings"
  /\ t.pc = "getMeetingOrder"
  /\ tasks' = Step(tasks, t, [t EXCEPT !.pc = "getAuthToken",
                                       !.storedOrder = getMeetingOrder(storage, t.range.start),
                                       !.readList = writtenFor(written, t.range.start)])
  /\ UNCHANGED <<aside, view, selectedRange, toggles, storage, events>>

\* The getAuthToken callback runs (lines 257-271): without a token it returns
\* (nothing else runs, loading keeps its value); with one the list request is
\* sent.
fetchMeetingsToken(t, token) ==
  /\ t.kind = "fetchMeetings"
  /\ t.pc = "getAuthToken"
  /\ tasks' = IF token THEN Step(tasks, t, [t EXCEPT !.pc = "fetch"]) ELSE Remove(tasks, t)
  /\ UNCHANGED <<aside, view, selectedRange, toggles, storage, events>>

\* The calendar answers the list request with the events of the window as
\* they are now.
fetchMeetingsServed(t) ==
  /\ t.kind = "fetchMeetings"
  /\ t.pc = "fetch"
  /\ tasks' = Step(tasks, t, [t EXCEPT !.pc = "response",
                            !.items = ListEvents(events, t.range.start,
                                                    t.range.end)])
  /\ UNCHANGED <<aside, view, selectedRange, toggles, storage, events>>

\* The response arrives (lines 273-311): the list is merged, sorted and shown.
fetchMeetingsResponse(t) ==
  /\ t.kind = "fetchMeetings"
  /\ t.pc = "response"
  /\ meetings' = mergeMeetings(t.items, t.storedOrder, t.tg, storage)
  /\ loading' = FALSE
  /\ viewStart' = t.range.start
  /\ tasks' = Remove(tasks, t)
  /\ UNCHANGED <<aside, updating, written, handled, selectedRange, toggles, storage, events>>

\* fetch (or response.json()) rejects inside the getAuthToken callback (lines
\* 260-273): the callback is an async function nobody awaits, so the catch of
\* lines 313-316 does not see it and the rest of the callback never runs.
fetchMeetingsThrows(t) ==
  /\ t.kind = "fetchMeetings"
  /\ t.pc \in {"fetch", "response"}
  /\ tasks' = Remove(tasks, t)
  /\ UNCHANGED <<aside, view, selectedRange, toggles, storage, events>>

\* ------------------------------------------------------ updateMeetingResponse

IsUpdate(t, pc) == t.kind = "updateMeetingResponse" /\ t.pc = pc

\* Lines 405-410: the event read by the GET with the viewer's attendee entry
\* set to the response; an answer without attendees (or an error body for an
\* event that no longer exists) gives a body without attendees.
updatedEventOf(evs, meetingId, response) ==
  IF meetingId \in DOMAIN evs
    THEN [attendees |->
            [i \in DOMAIN evs[meetingId].attendees |->
               IF evs[meetingId].attendees[i].self
                 THEN [evs[meetingId].attendees[i] EXCEPT !.responseStatus = response]
                 ELSE evs[meetingId].attendees[i]]]
    ELSE [attendees |-> NoAttendees]

\* The getAuthToken callback runs (lines 392-402): without a token it returns,
\* with one the GET of the event is sent.
updateToken(t, token) ==
  /\ IsUpdate(t, "getAuthToken")
  /\ tasks' = IF token THEN Step(tasks, t, [t EXCEPT !.pc = "GET", !.before = Forgotten])
                      ELSE Remove(tasks, t)
  /\ UNCHANGED <<aside, view, selectedRange, toggles, storage, events>>

\* The GET answers (lines 403-422): the body is built and the PATCH is sent.
updateGet(t) ==
  /\ IsUpdate(t, "GET")
  /\ tasks' = Step(tasks, t, [t EXCEPT !.pc = "PATCH",
                            !.updatedEvent =
                               updatedEventOf(events, t.meetingId, t.response)])
  /\ UNCHANGED <<aside, view, selectedRange, toggles, storage, events>>

\* A callback that ends when the PATCH has resolved.
afterPatchEnds(ts, t) == Remove(ts, t)

\* What follows a PATCH that resolved (lines 424-425): fetchMeetingsQuietly of
\* the range the handler closed over; its first step is getAuthToken.
afterPatch(ts, t) == Step(ts, t, [t EXCEPT !.pc = "quiet.getAuthToken"])

\* The PATCH is applied and answers.
updatePatch(t) ==
  /\ IsUpdate(t, "PATCH")
  /\ events' = PatchEvent(events, t.meetingId, t.updatedEvent)
  /\ tasks' = afterPatch(tasks, t)
  /\ UNCHANGED <<aside, view, selectedRange, toggles, storage>>

\* The GET, the PATCH or the list request of the quiet refetch rejects: the
\* callback is an async function nobody awaits, so the catch of lines 428-430
\* does not see it and nothing after the failing await runs. A PATCH or a
\* list request that rejects may or may not have reached the calendar.
updateThrows(t, applied) ==
  /\ t.kind = "updateMeetingResponse"
  /\ t.pc \in {"GET", "PATCH", "quiet.fetch", "quiet.response"}
  /\ events' = IF applied /\ t.pc = "PATCH"
                 THEN PatchEvent(events, t.meetingId, t.updatedEvent)
                 ELSE events
  /\ tasks' = Remove(tasks, t)
  /\ UNCHANGED <<aside, view, selectedRange, toggles, storage>>

\* fetchMeetingsQuietly, the getAuthToken callback (lines 321-324): without a
\* token it resolves [] and line 426 shows that; with one the stored order is
\* read next.
quietToken(t, token) ==
  /\ IsUpdate(t, "quiet.getAuthToken")
  /\ IF token
       THEN /\ tasks' = Step(tasks, t, [t EXCEPT !.pc = "quiet.getMeetingOrder"])
            /\ UNCHANGED <<meetings, viewStart>>
       ELSE /\ meetings' = <<>>
            /\ viewStart' = getDateRange(t.range).start
            /\ tasks' = Remove(tasks, t)
  /\ UNCHANGED <<aside, loading, updating, written, handled, selectedRange, toggles, storage, events>>

\* await getMeetingOrder(start) returns (line 324); the list request is sent.
quietOrder(t) ==
  /\ IsUpdate(t, "quiet.getMeetingOrder")
  /\ tasks' = Step(tasks, t, [t EXCEPT !.pc = "quiet.fetch",
                                       !.storedOrder =
                                          getMeetingOrder(storage, getDateRange(t.range).start),
                                       !.readList =
                                          writtenFor(written, getDateRange(t.range).start)])
  /\ UNCHANGED <<aside, view, selectedRange, toggles, storage, events>>

\* The calendar answers the list request of the quiet refetch.
quietServed(t) ==
  /\ IsUpdate(t, "quiet.fetch")
  /\ tasks' = Step(tasks, t, [t EXCEPT !.pc = "quiet.response",
                                       !.items = ListEvents(events, getDateRange(t.range).start,
                                                            getDateRange(t.range).end)])
  /\ UNCHANGED <<aside, view, selectedRange, toggles, storage, events>>

\* The response arrives (lines 339-376); the promise resolves and
\* updateMeetingResponse shows the list (line 426). loading is not touched.
quietResponse(t) ==
  /\ IsUpdate(t, "quiet.response")
  /\ meetings' = mergeMeetings(t.items, t.storedOrder, t.tg, storage)
  /\ viewStart' = getDateRange(t.range).start
  /\ tasks' = Remove(tasks, t)
  /\ UNCHANGED <<aside, loading, updating, written, handled, selectedRange, toggles, storage, events>>

\* --------------------------------------------------------------- cancelMeeting

\* The getAuthToken callback runs (lines 443-454): without a token it returns,
\* with one the DELETE is sent.
cancelToken(t, token) ==
  /\ t.kind = "cancelMeeting"
  /\ t.pc = "getAuthToken"
  /\ tasks' = IF token THEN Step(tasks, t, [t EXCEPT !.pc = "DELETE", !.before = Forgotten])
                      ELSE Remove(tasks, t)
  /\ UNCHANGED <<aside, view, selectedRange, toggles, storage, events>>

\* A cancellation that also rewrites the stored order of the bucket.
afterDeleteStoresOrder(ts, t) ==
  Add(Remove(ts, t), StoreTask(reorderKey("This Week"), EmptyMap, <<>>))

\* What follows a DELETE that resolved: the callback ends (line 455).
afterDelete(ts, t) == Remove(ts, t)

\* The DELETE is applied and answers.
cancelDelete(t) ==
  /\ t.kind = "cancelMeeting"
  /\ t.pc = "DELETE"
  /\ events' = DeleteEvent(events, t.meetingId)
  /\ tasks' = afterDelete(tasks, t)
  /\ UNCHANGED <<aside, view, selectedRange, toggles, storage>>

\* The DELETE rejects (it may or may not have reached the calendar); the catch
\* of lines 456-458 does not see it.
cancelThrows(t, applied) ==
  /\ t.kind = "cancelMeeting"
  /\ t.pc = "DELETE"
  /\ events' = IF applied THEN DeleteEvent(events, t.meetingId) ELSE events
  /\ tasks' = Remove(tasks, t)
  /\ UNCHANGED <<aside, view, selectedRange, toggles, storage>>

\* ------------------------------------------------------------- specification

Next ==
  \/ \E label \in RangeLabels : SelectRange(label)
  \/ ToggleSingleAttendee
  \/ ToggleDeclined
  \/ ToggleFree
  \/ \E row \in DOMAIN meetings, response \in Responses : updateMeetingResponse(row, response)
  \/ \E row \in DOMAIN meetings : cancelMeeting(row)
  \/ \E dragIndex, hoverIndex \in 0..(Len(meetings) - 1) : moveRow(dragIndex, hoverIndex)
  \/ \E index \in 0..(Len(meetings) - 1) : moveToTop(index)
  \/ \E index \in 0..(Len(meetings) - 1) : moveToBottom(index)
  \/ \E t \in DOMAIN tasks : storeMeetingOrderDone(t)
  \/ \E t \in DOMAIN tasks : fetchMeetingsOrder(t)
  \/ \E t \in DOMAIN tasks, token \in BOOLEAN : fetchMeetingsToken(t, token)
  \/ \E t \in DOMAIN tasks : fetchMeetingsServed(t)
  \/ \E t \in DOMAIN tasks : fetchMeetingsResponse(t)
  \/ \E t \in DOMAIN tasks : fetchMeetingsThrows(t)
  \/ \E t \in DOMAIN tasks, token \in BOOLEAN : updateToken(t, token)
  \/ \E t \in DOMAIN tasks : updateGet(t)
  \/ \E t \in DOMAIN tasks : updatePatch(t)
  \/ \E t \in DOMAIN tasks, applied \in BOOLEAN : updateThrows(t, applied)
  \/ \E t \in DOMAIN tasks, token \in BOOLEAN : quietToken(t, token)
  \/ \E t \in DOMAIN tasks : quietOrder(t)
  \/ \E t \in DOMAIN tasks : quietServed(t)
  \/ \E t \in DOMAIN tasks : quietResponse(t)
  \/ \E t \in DOMAIN tasks, token \in BOOLEAN : cancelToken(t, token)
  \/ \E t \in DOMAIN tasks : cancelDelete(t)
  \/ \E t \in DOMAIN tasks, applied \in BOOLEAN : cancelThrows(t, applied)

Spec == Init /\ [][Next]_vars

\* ------------------------------------------------------------- ReconcileSpec

\* The sessions in which the user only changes response statuses and every
\* remote call succeeds: a token is always there and no request rejects.
ReconcileNext ==
  \/ \E row \in DOMAIN meetings, response \in Responses : updateMeetingResponse(row, response)
  \/ \E t \in DOMAIN tasks : fetchMeetingsOrder(t)
  \/ \E t \in DOMAIN tasks : fetchMeetingsToken(t, TRUE)
  \/ \E t \in DOMAIN tasks : fetchMeetingsServed(t)
  \/ \E t \in DOMAIN tasks : fetchMeetingsResponse(t)
  \/ \E t \in DOMAIN tasks : updateToken(t, TRUE)
  \/ \E t \in DOMAIN tasks : updateGet(t)
  \/ \E t \in DOMAIN tasks : updatePatch(t)
  \/ \E t \in DOMAIN tasks : quietToken(t, TRUE)
  \/ \E t \in DOMAIN tasks : quietOrder(t)
  \/ \E t \in DOMAIN tasks : quietServed(t)
  \/ \E t \in DOMAIN tasks : quietResponse(t)

ReconcileSpec == Init /\ [][ReconcileNext]_vars

\* ------------------------------------------------------------------ AuthSpec

\* AuthWrapper (src/unnamed/part_002 lines 291-365) on its own: its children
\* are left out, so the variables of the list view keep their first values.

\* The key of chrome.storage.local that holds the OAuth token.
TokenKey == <<"token">>

\* What chrome.identity.getAuthToken hands to its callback: a token, or
\* undefined when none is available.
AuthTokens == {"ya29.a", "ya29.b"}

\* What the revoke request does: it answers 2xx, answers another status, or
\* the fetch rejects.
RevokeOutcomes == {"ok", "notOk", "rejects"}

\* A revoke request that only fails when the fetch rejects.
revokedUnlessRejected(outcome) == outcome # "rejects"

\* The revocation went through: the fetch resolved and response.ok is set
\* (lines 329-333).
revoked(outcome) == outcome = "ok"

CheckTask(pc) == [kind |-> "checkAuthStatus", pc |-> pc]
LoginTask(pc, token) == [kind |-> "handleLogin", pc |-> pc, token |-> token]
LogoutTask(pc, token) == [kind |-> "handleLogout", pc |-> pc, token |-> token]

\* chrome.storage.local.set({ token }) of checkAuthStatus, which is not
\* awaited (line 309).
SetTask(token) == [kind |-> "storage.set", token |-> token]

StorageRemove(store, key) == [k \in DOMAIN store \ {key} |-> store[k]]

\* What a step of AuthWrapper leaves alone.
children == <<meetings, loading, updating, selectedRange, toggles, events, viewStart,
              written, editor, call, ret, tz>>

\* window.location.reload(): the page and its pending callbacks are gone, the
\* writes already handed to the browser are not; AuthWrapper mounts again
\* and its effect calls checkAuthStatus.
reload(ts) ==
  LET writes == {t \in DOMAIN ts : t.kind = "storage.set"}
  IN  Add([t \in writes |-> ts[t]], CheckTask("get"))

\* checkAuthStatus, lines 300-304: the stored token has been read.
checkAuthStatusGet(t) ==
  /\ t.kind = "checkAuthStatus" /\ t.pc = "get"
  /\ IF TokenKey \in DOMAIN storage
       THEN hasToken' = TRUE /\ tasks' = Remove(tasks, t)
       ELSE hasToken' = hasToken /\ tasks' = Step(tasks, t, CheckTask("getAuthToken"))
  /\ UNCHANGED <<children, storage, handled, errors>>

\* checkAuthStatus, lines 307-312: the callback of the silent getAuthToken.
checkAuthStatusToken(t, token) ==
  /\ t.kind = "checkAuthStatus" /\ t.pc = "getAuthToken"
  /\ IF token # undefined
       THEN hasToken' = TRUE /\ tasks' = Step(tasks, t, SetTask(token))
       ELSE hasToken' = hasToken /\ tasks' = Remove(tasks, t)
  /\ UNCHANGED <<children, storage, handled, errors>>

\* The write of checkAuthStatus lands.
checkAuthStatusSet(t) ==
  /\ t.kind = "storage.set"
  /\ storage' = StorageSet(storage, TokenKey, t.token)
  /\ tasks' = Remove(tasks, t)
  /\ UNCHANGED <<children, hasToken, handled, errors>>

\* The Login button (lines 358-359) is there while hasToken is not set.
handleLogin ==
  /\ ~hasToken
  /\ Handle
  /\ tasks' = Add(tasks, LoginTask("getAuthToken", undefined))
  /\ UNCHANGED <<children, storage, hasToken, errors>>

\* handleLogin, lines 316-318: the callback of the interactive getAuthToken.
handleLoginToken(t, token) ==
  /\ t.kind = "handleLogin" /\ t.pc = "getAuthToken"
  /\ tasks' = IF token # undefined THEN Step(tasks, t, LoginTask("set", token))
              ELSE Remove(tasks, t)
  /\ UNCHANGED <<children, storage, hasToken, handled, errors>>

\* handleLogin, lines 318-319: the awaited write has landed.
handleLoginSet(t) ==
  /\ t.kind = "handleLogin" /\ t.pc = "set"
  /\ storage' = StorageSet(storage, TokenKey, t.token)
  /\ hasToken' = TRUE
  /\ tasks' = Remove(tasks, t)
  /\ UNCHANGED <<children, handled, errors>>

\* The children get handleLogout only while hasToken is set (line 360).
handleLogout ==
  /\ hasToken
  /\ Handle
  /\ tasks' = Add(tasks, LogoutTask("getAuthToken", undefined))
  /\ UNCHANGED <<children, storage, hasToken, errors>>

\* handleLogout, lines 325-326: the callback of the silent getAuthToken.
handleLogoutToken(t, token) ==
  /\ t.kind = "handleLogout" /\ t.pc = "getAuthToken"
  /\ tasks' = IF token # undefined THEN Step(tasks, t, LogoutTask("fetch", token))
              ELSE Remove(tasks, t)
  /\ UNCHANGED <<children, storage, hasToken, handled, errors>>

\* The catch of handleLogout, lines 342-344.
catch(t, error) ==
  /\ tasks' = Remove(tasks, t)
  /\ errors' = Append(errors, error)

\* handleLogout, lines 329-333: the revoke request has ended.
handleLogoutRevoke(t, outcome) ==
  /\ t.kind = "handleLogout" /\ t.pc = "fetch"
  /\ IF revoked(outcome)
       THEN /\ tasks' = Step(tasks, t, LogoutTask("removeCachedAuthToken", t.token))
            /\ errors' = errors
       ELSE catch(t, IF outcome = "notOk" THEN "Failed to revoke token"
                     ELSE "Failed to fetch")
  /\ UNCHANGED <<children, storage, hasToken, handled>>

\* handleLogout, lines 335-337: the two calls that empty the identity cache.
handleLogoutCache(t, resolved) ==
  /\ t.kind = "handleLogout"
  /\ t.pc \in {"removeCachedAuthToken", "clearAllCachedAuthTokens"}
  /\ IF resolved
       THEN /\ tasks' = Step(tasks, t,
                             LogoutTask(IF t.pc = "removeCachedAuthToken"
                                          THEN "clearAllCachedAuthTokens" ELSE "remove",
                                        t.token))
            /\ errors' = errors
       ELSE catch(t, t.pc)
  /\ UNCHANGED <<children, storage, hasToken, handled>>

\* handleLogout, lines 339-341: the stored token is removed, then the state
\* is cleared and the page reloaded.
handleLogoutRemove(t) ==
  /\ t.kind = "handleLogout" /\ t.pc = "remove"
  /\ storage' = StorageRemove(storage, TokenKey)
  /\ hasToken' = FALSE
  /\ tasks' = reload(Remove(tasks, t))
  /\ UNCHANGED <<children, handled, errors>>

\* AuthWrapper has just mounted: useState(false), and the effect of the
\* first render has called checkAuthStatus (lines 292-297). A token of an
\* earlier session may be in the store.
AuthInit ==
  /\ tz = SessionZone
  /\ meetings = <<>>
  /\ loading = TRUE
  /\ updating = FALSE
  /\ selectedRange = "This Week"
  /\ showSingleAttendee = FALSE
  /\ showDeclined = FALSE
  /\ showFree = FALSE
  /\ \E stored \in AuthTokens \cup {undefined} :
       storage = IF stored = undefined THEN [k \in {} |-> undefined]
                 ELSE [k \in {TokenKey} |-> stored]
  /\ written = [k \in {} |-> <<>>]
  /\ events = InitialEvents
  /\ tasks = Add(NoTasks, CheckTask("get"))
  /\ viewStart = NoView
  /\ handled = 0
  /\ EditorClosed
  /\ call = NoCall
  /\ ret = NoCall
  /\ hasToken = FALSE
  /\ errors = <<>>

AuthNext ==
  \/ \E t \in DOMAIN tasks : checkAuthStatusGet(t)
  \/ \E t \in DOMAIN tasks, token \in AuthTokens \cup {undefined} : checkAuthStatusToken(t, token)
  \/ \E t \in DOMAIN tasks : checkAuthStatusSet(t)
  \/ handleLogin
  \/ \E t \in DOMAIN tasks, token \in AuthTokens \cup {undefined} : handleLoginToken(t, token)
  \/ \E t \in DOMAIN tasks : handleLoginSet(t)
  \/ handleLogout
  \/ \E t \in DOMAIN tasks, token \in AuthTokens \cup {undefined} : handleLogoutToken(t, token)
  \/ \E t \in DOMAIN tasks, outcome \in RevokeOutcomes : handleLogoutRevoke(t, outcome)
  \/ \E t \in DOMAIN tasks, resolved \in BOOLEAN : handleLogoutCache(t, resolved)
  \/ \E t \in DOMAIN tasks : handleLogoutRemove(t)

AuthSpec == AuthInit /\ [][AuthNext]_vars

\* ------------------------------------------------------------------ PureSpec

\* Longest list a reorder function is applied to.
MaxLen == 4

PureIds == {"A", "B", "C", "D", "E"}

\* The lists of meetings with different ids, of length 1 to MaxLen.
PureLists ==
  LET ids == UNION {[1..n -> PureIds] : n \in 1..MaxLen}
  IN  {[i \in DOMAIN l |-> [id |-> l[i]]] :
         l \in {x \in ids : \A i, j \in DOMAIN x : i # j => x[i] # x[j]}}

\* Time zones: UTC+2, UTC, UTC-5.
PureZones == {0 - 2, 0, 5}

\* Local days a bucket can start on.
PureDays == 1..15

\* Attendee lists of a remote item: absent, and with and without an entry of
\* the viewer (at most one entry is flagged self).
PureAttendees ==
  {NoAttendees,
   <<Attendee(TRUE, "tentative")>>,
   <<Attendee(FALSE, "accepted"), Attendee(TRUE, "declined")>>,
   <<Attendee(FALSE, "accepted"), Attendee(FALSE, "declined")>>,
   <<Attendee(TRUE, "accepted"), Attendee(FALSE, "tentative")>>}

PureItems ==
  {[id |-> "A", summary |-> "aa", day |-> 1, endTime |-> 2,
    recurringEventId |-> r, eventType |-> "default", transparency |-> "opaque",
    organizer |-> [self |-> o], attendees |-> a] :
      r \in {undefined, "S1"}, o \in BOOLEAN, a \in PureAttendees}

PureOrders == {EmptyMap, [id \in {"A", "B"} |-> IF id = "A" THEN 1 ELSE 0]}

PureStores ==
  {[k \in {} |-> undefined],
   [k \in {getNoteStorageKey("A")} |-> "x"],
   [k \in {getNoteStorageKey("A"), getSeriesNoteStorageKey("S1")} |->
      IF k = getNoteStorageKey("A") THEN "" ELSE "y"]}

\* Everything but the call, its result and the time zone.
session == <<meetings, loading, updating, selectedRange, toggles, storage, events,
             tasks, viewStart, written, handled, editor, auth>>

\* What a reorder leaves: the new list and the map it hands to the store.
Reordered(list) ==
  [list |-> list,
   orderMap |-> storeMeetingOrder(list, reorderKey("This Week")).orderMap]

PureMoveRow ==
  /\ call = NoCall
  /\ \E list \in PureLists :
       \E dragIndex, hoverIndex \in 0..(Len(list) - 1) :
          /\ call' = [op |-> "moveRow", list |-> list,
                      dragIndex |-> dragIndex, hoverIndex |-> hoverIndex]
          /\ ret' = Reordered(moveRowResult(list, dragIndex, hoverIndex))
  /\ UNCHANGED <<session, tz>>

PureMoveToTop ==
  /\ call = NoCall
  /\ \E list \in PureLists :
       \E index \in 0..(Len(list) - 1) :
          /\ call' = [op |-> "moveToTop", list |-> list, index |-> index]
          /\ ret' = Reordered(moveToTopResult(list, index))
  /\ UNCHANGED <<session, tz>>

PureMoveToBottom ==
  /\ call = NoCall
  /\ \E list \in PureLists :
       \E index \in 0..(Len(list) - 1) :
          /\ call' = [op |-> "moveToBottom", list |-> list, index |-> index]
          /\ ret' = Reordered(moveToBottomResult(list, index))
  /\ UNCHANGED <<session, tz>>

PureToMeeting ==
  /\ call = NoCall
  /\ \E item \in PureItems, storedOrder \in PureOrders, store \in PureStores :
       /\ call' = [op |-> "toMeeting", item |-> item, storedOrder |-> storedOrder,
                   store |-> store]
       /\ ret' = toMeeting(item, storedOrder, store)
  /\ UNCHANGED <<session, tz>>

PureKeys ==
  /\ call = NoCall
  /\ \E start \in PureDays, meetingId \in PureIds, recurringEventId \in {"S1", "S2"} :
       /\ call' = [op |-> "keys", start |-> start, meetingId |-> meetingId,
                   recurringEventId |-> recurringEventId]
       /\ ret' = [order  |-> getStorageKey(start),
                  note   |-> getNoteStorageKey(meetingId),
                  series |-> getSeriesNoteStorageKey(recurringEventId)]
  /\ UNCHANGED <<session, tz>>

\* Remote items of every kind the filters tell apart: an ordinary meeting,
\* one the viewer declined, one marked free, one without attendee list, one
\* that is not a meeting, one with the viewer as only attendee.
FilterItems ==
  LET item(id, eventType, transparency, attendees) ==
        [id |-> id, summary |-> "aa", day |-> 1, endTime |-> 1,
         recurringEventId |-> undefined, eventType |-> eventType,
         transparency |-> transparency, organizer |-> [self |-> FALSE],
         attendees |-> attendees]
      two(status) == <<Attendee(FALSE, "accepted"), Attendee(TRUE, status)>>
  IN  {item("A", "default", "opaque", two("accepted")),
       item("B", "default", "opaque", two("declined")),
       item("C", "default", "transparent", two("tentative")),
       item("D", "default", "opaque", NoAttendees),
       item("E", "focusTime", "opaque", two("accepted")),
       item("F", "default", "opaque", <<Attendee(TRUE, "declined")>>)}

\* Responses of the list request: up to MaxLen - 1 items.
FilterLists == UNION {[1..n -> FilterItems] : n \in 1..(MaxLen - 1)}

\* The two filters of a fetch (lines 277 and 306-307), each applied once and
\* applied again to what it returned.
PureFilter ==
  /\ call = NoCall
  /\ \E items \in FilterLists, single, declined, free \in BOOLEAN :
       LET tg        == Toggles(single, declined, free)
           filtered  == filterMeetings(items, tg)
           projected == [i \in DOMAIN filtered |->
                           toMeeting(filtered[i], EmptyMap, [k \in {} |-> undefined])]
           visible   == declinedFilter(projected, tg)
       IN  /\ call' = [op |-> "filter", items |-> items, tg |-> tg]
           /\ ret' = [filtered |-> filtered,
                      filteredAgain |-> filterMeetings(filtered, tg),
                      visible |-> visible,
                      visibleAgain |-> declinedFilter(visible, tg)]
  /\ UNCHANGED <<session, tz>>

\* Times of day of `now`: midnight, noon, the last millisecond of the day.
PureTimes == {0, 43200000, 86399999}

\* Both selectors evaluated at the same `now`, This Week twice, and the
\* bucket keys of the two starts.
PureDateRange ==
  /\ call = NoCall
  /\ \E day \in PureDays, ms \in PureTimes :
       LET now == Date(day, ms)
       IN  /\ call' = [op |-> "getDateRange", now |-> now]
           /\ ret' = [thisWeek |-> getDateRangeAt("This Week", now),
                      again    |-> getDateRangeAt("This Week", now),
                      nextWeek |-> getDateRangeAt("Next Week", now),
                      thisKey  |-> getStorageKey(getDateRangeAt("This Week", now).start.day),
                      nextKey  |-> getStorageKey(getDateRangeAt("Next Week", now).start.day)]
  /\ UNCHANGED <<session, tz>>

\* The view is not mounted; the time zone is any of PureZones.
PureInit ==
  /\ tz \in PureZones
  /\ meetings = <<>>
  /\ loading = TRUE
  /\ updating = FALSE
  /\ selectedRange = "This Week"
  /\ showSingleAttendee = FALSE
  /\ showDeclined = FALSE
  /\ showFree = FALSE
  /\ storage = [k \in {} |-> EmptyMap]
  /\ written = [k \in {} |-> <<>>]
  /\ events = InitialEvents
  /\ tasks = NoTasks
  /\ viewStart = NoView
  /\ handled = 0
  /\ EditorClosed
  /\ call = NoCall
  /\ ret = NoCall
  /\ Authorized

PureNext ==
  \/ PureMoveRow
  \/ PureMoveToTop
  \/ PureMoveToBottom
  \/ PureToMeeting
  \/ PureKeys
  \/ PureFilter
  \/ PureDateRange

PureSpec == PureInit /\ [][PureNext]_vars

\* ----------------------------------------------------------------- NotesSpec

\* User actions on the notes editor in one session of NotesSpec.
MaxNoteActions == 3

\* What the user types into a textarea.
Texts == {"", "x", "y"}

\* A calendar with a recurring series: P and Q are occurrences of series S1,
\* T is an occurrence of series S2, R is a single meeting. All four pass the
\* filters of the unchecked toggles.
SeriesEvents ==
  [P |-> [id |-> "P", summary |-> "pp", endTime |-> 1,
          recurringEventId |-> "S1", eventType |-> "default", transparency |-> "opaque",
          day |-> 1, organizer |-> [self |-> TRUE],
          attendees |-> <<Attendee(TRUE, "accepted"), Attendee(FALSE, "accepted")>>],
   Q |-> [id |-> "Q", summary |-> "qq", endTime |-> 2,
          recurringEventId |-> "S1", eventType |-> "default", transparency |-> "opaque",
          day |-> 2, organizer |-> [self |-> TRUE],
          attendees |-> <<Attendee(TRUE, "tentative"), Attendee(FALSE, "accepted")>>],
   R |-> [id |-> "R", summary |-> "rr", endTime |-> 3,
          recurringEventId |-> undefined, eventType |-> "default", transparency |-> "opaque",
          day |-> 3, organizer |-> [self |-> FALSE],
          attendees |-> <<Attendee(FALSE, "accepted"), Attendee(TRUE, "needsAction")>>],
   T |-> [id |-> "T", summary |-> "tt", endTime |-> 4,
          recurringEventId |-> "S2", eventType |-> "default", transparency |-> "opaque",
          day |-> 4, organizer |-> [self |-> FALSE],
          attendees |-> <<Attendee(FALSE, "accepted"), Attendee(TRUE, "accepted")>>]]

\* The notes an earlier session left in the store: none, or a note of Q and a
\* note of series S2.
PriorNotes ==
  {[k \in {} |-> undefined],
   [k \in {getNoteStorageKey("Q"), getSeriesNoteStorageKey("S2")} |->
      IF k = getNoteStorageKey("Q") THEN "y" ELSE "x"]}

\* A user action on the notes editor is handled.
HandleNote ==
  /\ handled < MaxNoteActions
  /\ handled' = handled + 1

\* The meeting the mounted NotesModal is bound to (its `meeting` prop, line 799).
meeting == selectedMeeting[1]

\* text || ''
orEmpty(text) == IF text = undefined THEN "" ELSE text

\* useState(initial) of a component: the initial value is taken when the
\* component mounts; a mounted component keeps its state.
useState(state, initial) == IF state = undefined THEN initial ELSE state

\* A modal that is hidden when it is closed, and keeps its state.
unmountKeepsState(state) == state

\* Line 797: with selectedMeeting null NotesModal is not rendered and its
\* state (the drafts) is dropped.
unmount(state) == undefined

\* handleNotesClick(row.original) (lines 523-526, 636): the modal mounts with
\* the meeting of the row and its drafts start from the meeting's notes (part_002
\* lines 16-17; the effect of lines 19-22 sets the same values again).
handleNotesClick(row) ==
  /\ TableRendered
  /\ selectedMeeting = null
  /\ row \in DOMAIN meetings
  /\ HandleNote
  /\ selectedMeeting' = <<meetings[row]>>
  /\ isNotesModalOpen' = TRUE
  /\ noteDraft' = useState(noteDraft, orEmpty(meetings[row].notes))
  /\ seriesNoteDraft' = useState(seriesNoteDraft, orEmpty(meetings[row].seriesNotes))
  /\ UNCHANGED <<meetings, loading, updating, selectedRange, toggles, storage, events,
                 tasks, viewStart, written, call, ret, tz, auth>>

\* The textarea of the item note (part_002 lines 62-66).
setNoteDraft(text) ==
  /\ selectedMeeting # null
  /\ noteDraft' = text
  /\ UNCHANGED <<meetings, loading, updating, selectedRange, toggles, storage, events,
                 tasks, viewStart, written, handled, selectedMeeting, isNotesModalOpen,
                 seriesNoteDraft, call, ret, tz, auth>>

\* The textarea of the series note, rendered for a meeting of a series
\* (part_002 lines 69-78).
setSeriesNoteDraft(text) ==
  /\ selectedMeeting # null
  /\ meeting.recurringEventId # undefined
  /\ seriesNoteDraft' = text
  /\ UNCHANGED <<meetings, loading, updating, selectedRange, toggles, storage, events,
                 tasks, viewStart, written, handled, selectedMeeting, isNotesModalOpen,
                 noteDraft, call, ret, tz, auth>>

\* Cancel, or a click outside the modal (part_002 lines 34 and 81): onClose
\* of lines 800-803.
onClose ==
  /\ selectedMeeting # null
  /\ HandleNote
  /\ isNotesModalOpen' = FALSE
  /\ selectedMeeting' = null
  /\ noteDraft' = unmount(noteDraft)
  /\ seriesNoteDraft' = unmount(seriesNoteDraft)
  /\ UNCHANGED <<meetings, loading, updating, selectedRange, toggles, storage, events,
                 tasks, viewStart, written, call, ret, tz, auth>>

\* storeNote up to its await (lines 128-130): the write that is issued.
storeNote(meetingId, note) == [key |-> getNoteStorageKey(meetingId), value |-> note]

\* storeSeriesNote up to its await (lines 132-134).
storeSeriesNote(recurringEventId, note) ==
  [key |-> getSeriesNoteStorageKey(recurringEventId), value |-> note]

\* handleNoteSave waiting for its write; `selected` is the selectedMeeting of
\* the render the function belongs to.
NoteTask(selected, write, isSeriesNote) ==
  [kind |-> "handleNoteSave", pc |-> "set", selectedMeeting |-> selected,
   key |-> write.key, note |-> write.value, isSeriesNote |-> isSeriesNote]

\* A save that takes every note for the item note.
handleNoteSaveAsItemNote(ts, selected, note, isSeriesNote) ==
  IF selected = null THEN ts
  ELSE Add(ts, NoteTask(selected, storeNote(selected[1].id, note), FALSE))

\* handleNoteSave up to its await (lines 528-532, 541-542).
handleNoteSave(ts, selected, note, isSeriesNote) ==
  IF selected = null THEN ts
  ELSE IF isSeriesNote /\ selected[1].recurringEventId # undefined
    THEN Add(ts, NoteTask(selected, storeSeriesNote(selected[1].recurringEventId, note), TRUE))
    ELSE Add(ts, NoteTask(selected, storeNote(selected[1].id, note), FALSE))

\* Save (part_002 lines 24-29 and 82): onSave is handleNoteSave of the render
\* that rendered the modal; both calls run in the click handler, before any
\* of their continuations.
handleSave ==
  /\ selectedMeeting # null
  /\ HandleNote
  /\ tasks' =
       LET first == handleNoteSave(tasks, selectedMeeting, noteDraft, FALSE)
       IN  IF meeting.recurringEventId # undefined
             THEN handleNoteSave(first, selectedMeeting, seriesNoteDraft, TRUE)
             ELSE first
  /\ UNCHANGED <<meetings, loading, updating, selectedRange, toggles, storage, events,
                 viewStart, written, editor, call, ret, tz, auth>>

\* Lines 543-548.
setNotes(prevMeetings, selected, note) ==
  [i \in DOMAIN prevMeetings |->
     IF prevMeetings[i].id = selected.id
       THEN [prevMeetings[i] EXCEPT !.notes = note]
       ELSE prevMeetings[i]]

\* An update of the series note of the selected meeting only.
setSeriesNotesOfSelected(prevMeetings, selected, note) ==
  [i \in DOMAIN prevMeetings |->
     IF prevMeetings[i].id = selected.id
       THEN [prevMeetings[i] EXCEPT !.seriesNotes = note]
       ELSE prevMeetings[i]]

\* Lines 533-539.
setSeriesNotes(prevMeetings, selected, note) ==
  [i \in DOMAIN prevMeetings |->
     IF prevMeetings[i].recurringEventId = selected.recurringEventId
       THEN [prevMeetings[i] EXCEPT !.seriesNotes = note]
       ELSE prevMeetings[i]]

\* The write of a save has landed and handleNoteSave goes on (lines 533-539
\* or 543-548, then 550-551): the list is updated and the editor is closed.
handleNoteSaveDone(t) ==
  /\ t.kind = "handleNoteSave"
  /\ storage' = StorageSet(storage, t.key, t.note)
  /\ meetings' = IF t.isSeriesNote
                   THEN setSeriesNotes(meetings, t.selectedMeeting[1], t.note)
                   ELSE setNotes(meetings, t.selectedMeeting[1], t.note)
  /\ isNotesModalOpen' = FALSE
  /\ selectedMeeting' = null
  /\ noteDraft' = unmount(noteDraft)
  /\ seriesNoteDraft' = unmount(seriesNoteDraft)
  /\ tasks' = Remove(tasks, t)
  /\ UNCHANGED <<loading, updating, selectedRange, toggles, events, viewStart, written,
                 handled, call, ret, tz, auth>>

\* The view is opened on the calendar with the series.
NotesInit ==
  /\ tz = SessionZone
  /\ meetings = <<>>
  /\ loading = TRUE
  /\ updating = FALSE
  /\ selectedRange = "This Week"
  /\ showSingleAttendee = FALSE
  /\ showDeclined = FALSE
  /\ showFree = FALSE
  /\ storage \in PriorNotes
  /\ written = [k \in {} |-> <<>>]
  /\ events = SeriesEvents
  /\ tasks = Add(NoTasks,
                 FetchTask(getDateRange("This Week"), Toggles(FALSE, FALSE, FALSE),
                           Before(TRUE, 0)))
  /\ viewStart = NoView
  /\ handled = 0
  /\ EditorClosed
  /\ call = NoCall
  /\ ret = NoCall
  /\ Authorized

NotesNext ==
  \/ \E t \in DOMAIN tasks : fetchMeetingsOrder(t)
  \/ \E t \in DOMAIN tasks, token \in BOOLEAN : fetchMeetingsToken(t, token)
  \/ \E t \in DOMAIN tasks : fetchMeetingsServed(t)
  \/ \E t \in DOMAIN tasks : fetchMeetingsResponse(t)
  \/ \E row \in DOMAIN meetings : handleNotesClick(row)
  \/ \E text \in Texts : setNoteDraft(text)
  \/ \E text \in Texts : setSeriesNoteDraft(text)
  \/ onClose
  \/ handleSave
  \/ \E t \in DOMAIN tasks : handleNoteSaveDone(t)

NotesSpec == NotesInit /\ [][NotesNext]_vars

\* ============================================================== properties

IdSet(ids) == {ids[i] : i \in DOMAIN ids}

\* The tasks a step starts.
Started ==
  {t \in DOMAIN tasks' : t \notin DOMAIN tasks \/ tasks'[t] > tasks[t]}

\* A step that shows the result of a list request of task t.
Shows(t) == fetchMeetingsResponse(t) \/ quietResponse(t)

\* C1. Order round-trip: when a fetch for a bucket has read the order that
\* the last completed storeMeetingOrder(L, K) left there, and the meetings its
\* response makes visible are exactly the meetings of L, the list it shows has
\* the order of L.
C1_OrderRoundTrip ==
  [][\A t \in DOMAIN tasks :
       (Shows(t) /\ IdSet(IdsOf(meetings')) = IdSet(t.readList))
          => IdsOf(meetings') = t.readList]_vars

\* C1 witness: a list that was reordered against the arrival order of the
\* calendar has been stored and a later fetch of the same bucket shows it.
C1_Witness ==
  /\ ~loading
  /\ Len(meetings) >= 2
  /\ viewStart # NoView
  /\ IdsOf(meetings) = writtenFor(written, viewStart)
  /\ \E i, j \in DOMAIN meetings :
       i < j /\ InitialEvents[meetings[i].id].day > InitialEvents[meetings[j].id].day
  /\ \A i \in DOMAIN meetings : meetings[i].order = i - 1
  /\ handled > 0

\* A reorder of the displayed list: a drag, move-to-top or move-to-bottom.
Reorders ==
  \/ \E dragIndex, hoverIndex \in 0..(Len(meetings) - 1) : moveRow(dragIndex, hoverIndex)
  \/ \E index \in 0..(Len(meetings) - 1) : moveToTop(index)
  \/ \E index \in 0..(Len(meetings) - 1) : moveToBottom(index)

\* C2. Every reorder issues a storeMeetingOrder write of the resulting list,
\* and the bucket key of the write is the key of the date range whose fetch
\* produced the list being reordered.
C2_ReorderWritesViewBucket ==
  [][Reorders =>
       \E t \in Started :
          /\ t.kind = "storeMeetingOrder"
          /\ t.list = IdsOf(meetings')
          /\ t.key = getStorageKey(viewStart)]_vars

\* A fetch, a quiet refetch or a mutation is in flight.
FetchOrMutationInFlight ==
  \E t \in DOMAIN tasks :
     t.kind \in {"fetchMeetings", "updateMeetingResponse", "cancelMeeting"}

\* C3. Whenever no fetch or mutation is in flight, the displayed list has a
\* declined meeting only if show-declined is on, a free (transparent) meeting
\* only if show-free is on, and a meeting with fewer than two attendees only
\* if show-single-attendee is on, the toggles taken at their current values.
C3_ListRespectsToggles ==
  (~loading /\ ~FetchOrMutationInFlight) =>
     \A i \in DOMAIN meetings :
        LET item == InitialEvents[meetings[i].id]
        IN  /\ meetings[i].responseStatus = "declined" => showDeclined
            /\ item.transparency = "transparent" => showFree
            /\ Len(item.attendees) < 2 => showSingleAttendee

\* The GET or the PATCH of task t rejects.
RemoteCallFails(t) ==
  /\ t.kind = "updateMeetingResponse"
  /\ t.pc \in {"GET", "PATCH"}
  /\ \E applied \in BOOLEAN : updateThrows(t, applied)

\* C4. When the GET or the PATCH of updateMeetingResponse fails, a full
\* refetch is performed (which then shows the status the calendar has).
C4_FailureRefetches ==
  [][\A t \in DOMAIN tasks :
       RemoteCallFails(t) => \E n \in Started : n.kind = "fetchMeetings"]_vars

\* The remote request of a mutation is issued and not yet resolved.
RemoteRequestInFlight ==
  \E t \in DOMAIN tasks :
     \/ t.kind = "updateMeetingResponse" /\ t.pc \in {"GET", "PATCH"}
     \/ t.kind = "cancelMeeting" /\ t.pc = "DELETE"

\* C5. In every state where the remote request of a mutation is in flight,
\* the updating flag is true.
C5_UpdatingWhileInFlight == RemoteRequestInFlight => updating

\* A step of a response-status change or of a cancellation: the handler or a
\* step of its callback.
MutationStep ==
  \/ \E row \in DOMAIN meetings, response \in Responses : updateMeetingResponse(row, response)
  \/ \E row \in DOMAIN meetings : cancelMeeting(row)
  \/ \E t \in DOMAIN tasks, b \in BOOLEAN :
       \/ updateToken(t, b) \/ updateGet(t) \/ updatePatch(t) \/ updateThrows(t, b)
       \/ quietToken(t, b) \/ quietOrder(t) \/ quietServed(t) \/ quietResponse(t)
       \/ cancelToken(t, b) \/ cancelDelete(t) \/ cancelThrows(t, b)

\* The step starts the quiet refetch of the mutation of task t.
QuietRefetchStarted(t) ==
  \E n \in Started : n.pc = "quiet.getAuthToken" /\ n.meetingId = t.meetingId

\* The displayed list is made of the answer to the list request of task t.
ShowsAnswerOf(t) ==
  \A i \in DOMAIN meetings' :
     \E k \in DOMAIN t.items :
        /\ t.items[k].id = meetings'[i].id
        /\ meetings'[i].responseStatus = selfResponseStatus(t.items[k])

\* What a quiet refetch does once it has been started.
QuietRefetchRuns(t) ==
  /\ quietToken(t, TRUE) => \E n \in Started : n.pc = "quiet.getMeetingOrder"
  /\ quietToken(t, FALSE) => meetings' = <<>>
  /\ quietOrder(t) => \E n \in Started : n.pc = "quiet.fetch"
  /\ quietResponse(t) => ShowsAnswerOf(t)

C7_OptimisticChange ==
  [][/\ \A row \in DOMAIN meetings, response \in Responses :
          updateMeetingResponse(row, response) =>
             /\ IdsOf(meetings') = IdsOf(meetings)
             /\ meetings'[row].responseStatus = response
             /\ \A i \in DOMAIN meetings : i # row => meetings'[i] = meetings[i]
             /\ events' = events
     /\ \A row \in DOMAIN meetings :
          cancelMeeting(row) =>
             /\ Len(meetings') = Len(meetings) - 1
             /\ \A i \in DOMAIN meetings' :
                  meetings'[i] = meetings[IF i < row THEN i ELSE i + 1]
             /\ events' = events]_vars

\* C7 witness: a response change and a cancellation have been invoked and
\* neither has reached the calendar: the list shows the new status of the one
\* meeting and lacks the other, the calendar has the old status and both.
C7_Witness ==
  /\ \E t \in DOMAIN tasks :
       /\ IsUpdate(t, "getAuthToken")
       /\ t.meetingId \in DOMAIN events
       /\ selfResponseStatus(events[t.meetingId]) # t.response
       /\ \E i \in DOMAIN meetings :
            meetings[i].id = t.meetingId /\ meetings[i].responseStatus = t.response
  /\ \E t \in DOMAIN tasks :
       /\ t.kind = "cancelMeeting"
       /\ t.pc = "getAuthToken"
       /\ t.meetingId \in DOMAIN events
       /\ t.meetingId \notin IdSet(IdsOf(meetings))
  /\ Len(meetings) > 0

\* C8. After every invocation of updateMeetingResponse or cancelMeeting, in
\* every outcome of the remote call, the updating flag is false: it is false
\* in every state a render sees.
C8_UpdatingCleared == updating = FALSE

\* C8 witness: a mutation has been invoked, its callback has ended and it has
\* changed the calendar; the flag is false.
C8_Witness ==
  /\ ~updating
  /\ events # InitialEvents
  /\ ~\E t \in DOMAIN tasks : t.kind \in {"updateMeetingResponse", "cancelMeeting"}

\* C9. The list a fetch shows is sorted ascending by the stored rank read for
\* the bucket: ranked meetings by rank, every meeting without a stored rank
\* after every ranked one, and the unranked ones in the order of the remote
\* response.
C9_SortedByStoredRank ==
  [][\A t \in DOMAIN tasks :
       Shows(t) =>
          LET ids        == IdsOf(meetings')
              ranked(id) == id \in DOMAIN t.storedOrder
              arrival(id) == CHOOSE k \in DOMAIN t.items : t.items[k].id = id
          IN  \A i, j \in DOMAIN ids :
                 i < j =>
                    /\ (ranked(ids[i]) /\ ranked(ids[j]))
                          => t.storedOrder[ids[i]] <= t.storedOrder[ids[j]]
                    /\ ranked(ids[j]) => ranked(ids[i])
                    /\ (~ranked(ids[i]) /\ ~ranked(ids[j]))
                          => arrival(ids[i]) < arrival(ids[j])]_vars

\* C9 witness: a fetch after a toggle change has shown a list with a ranked
\* meeting in front of two meetings without a stored rank, one of which
\* arrives before the ranked one.
C9_Witness ==
  /\ ~loading
  /\ handled > 0
  /\ \A i, j \in DOMAIN meetings : i < j => meetings[i].order <= meetings[j].order
  /\ \E i, j, k \in DOMAIN meetings :
       /\ i < j /\ j < k
       /\ meetings[i].order < MAX_SAFE_INTEGER
       /\ meetings[j].order = MAX_SAFE_INTEGER
       /\ meetings[k].order = MAX_SAFE_INTEGER
       /\ InitialEvents[meetings[j].id].day < InitialEvents[meetings[i].id].day
       /\ InitialEvents[meetings[j].id].day < InitialEvents[meetings[k].id].day

\* The map with rank i - 1 for the i-th id of the list and no other entry.
IsDenseRankMap(map, ids) ==
  /\ DOMAIN map = IdSet(ids)
  /\ \A i \in DOMAIN ids : map[ids[i]] = i - 1
  /\ {map[id] : id \in DOMAIN map} = 0..(Len(ids) - 1)

\* C10. storeMeetingOrder(list, start) replaces the whole value under the
\* bucket key by the map with exactly one entry per meeting of the list, rank
\* i for the i-th; an id of the previous map that is not in the list has no
\* entry afterwards, and no other key changes.
C10_StoreReplacesWithDenseMap ==
  [][/\ Reorders =>
          \E t \in Started :
             /\ t.kind = "storeMeetingOrder"
             /\ IsDenseRankMap(t.orderMap, IdsOf(meetings'))
     /\ \A t \in DOMAIN tasks :
          storeMeetingOrderDone(t) =>
             /\ t.key \in DOMAIN storage'
             /\ IsDenseRankMap(storage'[t.key], t.list)
             /\ \A k \in DOMAIN storage : k # t.key => storage'[k] = storage[k]]_vars

\* C10 witness: a write has landed under a key whose previous map ranked a
\* hidden meeting first: the displayed meetings still carry the ranks read
\* before the write (rank 1, none with rank 0), and the map now holds the
\* displayed list only.
C10_Witness ==
  \E k \in DOMAIN storage :
     /\ Len(meetings) >= 2
     /\ written[k] = IdsOf(meetings)
     /\ IsDenseRankMap(storage[k], IdsOf(meetings))
     /\ \E i \in DOMAIN meetings : meetings[i].order = 1
     /\ \A i \in DOMAIN meetings : meetings[i].order # 0
     /\ \E i \in DOMAIN meetings : meetings[i].order = MAX_SAFE_INTEGER
     /\ "C" \notin DOMAIN storage[k]

\* The list without the element x.
Without(list, x) ==
  LET other(m) == m # x
  IN  SelectSeq(list, other)

\* How many times id occurs in a list of meetings.
Occurrences(list, id) == Cardinality({i \in DOMAIN list : list[i].id = id})

\* C11. moveRow(from, to) is a relocation of one item, not a swap: the meeting
\* that was at index from is at index to in the result, and all other
\* meetings keep their relative order.
C11_MoveRowRelocates ==
  call.op = "moveRow" =>
     LET moved == call.list[call.dragIndex + 1]
     IN  /\ ret.list[call.hoverIndex + 1] = moved
         /\ Without(ret.list, moved) = Without(call.list, moved)

\* C11 witness: moveRow has moved a meeting over two others, which have both
\* shifted by one place.
C11_Witness ==
  /\ call.op = "moveRow"
  /\ call.hoverIndex >= call.dragIndex + 2
  /\ ret.list[call.hoverIndex + 1] = call.list[call.dragIndex + 1]
  /\ ret.list[call.dragIndex + 1] = call.list[call.dragIndex + 2]
  /\ ret.list[call.hoverIndex] = call.list[call.hoverIndex + 1]

\* C12. moveRow, moveToTop and moveToBottom applied to a list of length N with
\* valid indices return a list of length N with the same multiset of ids.
C12_ReorderPreservesIds ==
  call.op \in {"moveRow", "moveToTop", "moveToBottom"} =>
     /\ Len(ret.list) = Len(call.list)
     /\ \A id \in PureIds : Occurrences(ret.list, id) = Occurrences(call.list, id)

\* C12 witness: moveToTop has changed a list of MaxLen meetings.
C12_Witness ==
  /\ call.op = "moveToTop"
  /\ Len(call.list) = MaxLen
  /\ call.index = MaxLen - 1
  /\ ret.list # call.list
  /\ Len(ret.list) = MaxLen

\* C13. moveToTop(i) and moveToBottom(i) produce the list moveRow(i, 0) and
\* moveRow(i, length - 1) produce, and the rank map handed to the store
\* afterwards maps the j-th meeting of the new list to j.
C13_TopAndBottomAreMoveRow ==
  /\ call.op = "moveToTop" => ret.list = moveRowResult(call.list, call.index, 0)
  /\ call.op = "moveToBottom" =>
        ret.list = moveRowResult(call.list, call.index, Len(call.list) - 1)
  /\ call.op \in {"moveToTop", "moveToBottom"} =>
        /\ DOMAIN ret.orderMap = IdSet(IdsOf(ret.list))
        /\ \A j \in DOMAIN ret.list : ret.orderMap[ret.list[j].id] = j - 1

\* C13 witness: moveToTop on index 2 of [A, B, C] has given [C, A, B] and the
\* map {C: 0, A: 1, B: 2}.
C13_Witness ==
  /\ call.op = "moveToTop"
  /\ IdsOf(call.list) = <<"A", "B", "C">>
  /\ call.index = 2
  /\ IdsOf(ret.list) = <<"C", "A", "B">>
  /\ ret.orderMap["C"] = 0 /\ ret.orderMap["A"] = 1 /\ ret.orderMap["B"] = 2

\* The attendee entries of an item that are flagged self.
SelfEntries(item) == {i \in DOMAIN item.attendees : item.attendees[i].self}

\* C19. For every fetched item the responseStatus shown is that of the
\* attendee entry flagged self, and 'needsAction' when the item has no
\* attendee list or no such entry; id, summary, start, end, organizer and
\* recurringEventId are those of the item.
C19_Projection ==
  call.op = "toMeeting" =>
     /\ \A i \in SelfEntries(call.item) :
           ret.responseStatus = call.item.attendees[i].responseStatus
     /\ SelfEntries(call.item) = {} => ret.responseStatus = "needsAction"
     /\ ret.id = call.item.id
     /\ ret.summary = call.item.summary
     /\ ret.startTime = call.item.day
     /\ ret.endTime = call.item.endTime
     /\ ret.organizer = call.item.organizer
     /\ ret.recurringEventId = call.item.recurringEventId

\* C19 witness: an item whose second attendee is the viewer has been projected
\* and shows the viewer's status, not the first attendee's.
C19_Witness ==
  /\ call.op = "toMeeting"
  /\ Len(call.item.attendees) = 2
  /\ SelfEntries(call.item) = {2}
  /\ ret.responseStatus = "declined"
  /\ call.item.attendees[1].responseStatus # "declined"
  /\ ret.recurringEventId = "S1"

\* The keys are those of the three functions, a prefix and a value; the value
\* of the order key is the date the bucket start falls on in UTC.
KeyValues ==
  /\ 24 * ret.order[2] <= 24 * call.start + tz
  /\ 24 * call.start + tz < 24 * (ret.order[2] + 1)
  /\ ret.note[2] = call.meetingId
  /\ ret.series[2] = call.recurringEventId

\* C20 as claimed: the order key of a bucket is "order_" followed by the
\* date-only ISO form of the bucket start, the note key of a meeting "note_"
\* followed by the meeting id, the series-note key "seriesNote_" followed by
\* the recurring event id.
C20_DocumentedKeys ==
  call.op = "keys" =>
     /\ ret.order[1] = "order_"
     /\ ret.note[1] = "note_"
     /\ ret.series[1] = "seriesNote_"
     /\ KeyValues

\* C20 as amended: the prefixes are "meetingOrder_", "meetingNote_" and
\* "seriesNote_"; the date of the order key is the date of the bucket start in
\* UTC (toISOString), the other two values are the ids.
C20_Keys ==
  call.op = "keys" =>
     /\ ret.order[1] = "meetingOrder_"
     /\ ret.note[1] = "meetingNote_"
     /\ ret.series[1] = "seriesNote_"
     /\ KeyValues

\* C20 witness: east of Greenwich the key of a bucket that starts on local
\* day d has the date d - 1.
C20_Witness ==
  /\ call.op = "keys"
  /\ tz < 0
  /\ ret.order = <<"meetingOrder_", call.start - 1>>
  /\ ret.note = <<"meetingNote_", call.meetingId>>
  /\ ret.series = <<"seriesNote_", call.recurringEventId>>

\* ---------------------------------------------------------------- C16, C17

\* The getAuthToken callback of one of the three operations gets no token.
NoToken(t) ==
  \/ fetchMeetingsToken(t, FALSE)
  \/ updateToken(t, FALSE)
  \/ cancelToken(t, FALSE)

\* Operation t ran by itself: nothing was in flight when it was called, no
\* user action has been handled since, and it is the only task.
Undisturbed(t) ==
  /\ t.before.alone
  /\ t.before.handled = handled
  /\ DOMAIN tasks = {t}
  /\ tasks[t] = 1

\* C16: when getAuthToken yields no token, fetchMeetings, updateMeetingResponse
\* and cancelMeeting are no-ops: after the operation (its callback has
\* returned) the list, the loading flag, the updating flag and the overlay
\* store are what they were before the operation was called.
C16_NoTokenIsNoOp ==
  [][\A t \in DOMAIN tasks :
       NoToken(t) /\ Undisturbed(t) =>
         /\ meetings' = t.before.meetings
         /\ loading' = t.before.loading
         /\ updating' = t.before.updating
         /\ storage' = t.before.storage]_vars

\* C17: when the list request of fetchMeetings rejects, the loading flag
\* becomes false and the list is the one before the fetch. The rejection is
\* the last step of the fetch: nothing of it is left to run afterwards, so
\* the flag has to be false when the step is over.
C17_RejectedFetchClearsLoading ==
  [][\A t \in DOMAIN tasks :
       fetchMeetingsThrows(t) /\ Undisturbed(t) =>
         /\ loading' = FALSE
         /\ meetings' = t.before.meetings]_vars

\* ----------------------------------------------------------- C14, C15, C18

RECURSIVE Total(_, _)
Total(ts, some) ==
  IF some = {} THEN 0
  ELSE LET t == CHOOSE x \in some : TRUE
       IN  ts[t] + Total(ts, some \ {t})

\* How many writes of `value` under `key` issued by saves are in flight.
Pending(ts, key, value) ==
  Total(ts, {t \in DOMAIN ts : t.kind = "handleNoteSave" /\ t.key = key /\ t.note = value})

\* The keys and values of the writes of saves in flight.
PendingKeys(ts) == {t.key : t \in {x \in DOMAIN ts : x.kind = "handleNoteSave"}}
PendingValues(ts) == {t.note : t \in {x \in DOMAIN ts : x.kind = "handleNoteSave"}}

\* C14: Save issues one write of the item-note draft under the note key of
\* the bound meeting and, exactly when that meeting has a recurringEventId, one
\* write of the series-note draft under the key of its series, and no other
\* write (none of the series draft under the note key); every write that was
\* issued lands in the store, whether or not the editor has been closed and
\* the selected meeting cleared by then.
C14_SaveWrites ==
  [][/\ handleSave =>
          LET noteKey   == <<"meetingNote_", meeting.id>>
              seriesKey == <<"seriesNote_", meeting.recurringEventId>>
              recurring == meeting.recurringEventId # undefined
              issued(key, value) ==
                (IF key = noteKey /\ value = noteDraft THEN 1 ELSE 0)
                + (IF recurring /\ key = seriesKey /\ value = seriesNoteDraft THEN 1 ELSE 0)
          IN  /\ \A key \in PendingKeys(tasks') \cup {noteKey, seriesKey} :
                   \A value \in PendingValues(tasks') \cup {noteDraft, seriesNoteDraft} :
                      Pending(tasks', key, value) = Pending(tasks, key, value) + issued(key, value)
              /\ storage' = storage
     /\ \A t \in DOMAIN tasks :
          handleNoteSaveDone(t) =>
            /\ DOMAIN storage' = DOMAIN storage \cup {t.key}
            /\ storage'[t.key] = t.note
            /\ \A k \in DOMAIN storage \ {t.key} : storage'[k] = storage[k]]_vars

\* One save of drafts "x" and "y" on meeting P of series S1 has landed: both
\* drafts are in the store, each under its key, and the editor is closed.
C14_Witness ==
  /\ handled = 2
  /\ tasks = NoTasks
  /\ selectedMeeting = null
  /\ DOMAIN storage = {getNoteStorageKey("P"), getSeriesNoteStorageKey("S1")}
  /\ storage[getNoteStorageKey("P")] = "x"
  /\ storage[getSeriesNoteStorageKey("S1")] = "y"

\* C15: when the save of a series note of series S goes on after its write,
\* every loaded meeting of series S gets the saved text as seriesNotes, the
\* seriesNotes of the other meetings stay, and so do the position, the order,
\* the responseStatus (and the notes) of every meeting.
C15_SeriesNoteOnEveryOccurrence ==
  [][\A t \in DOMAIN tasks :
       (handleNoteSaveDone(t) /\ t.key[1] = "seriesNote_") =>
         /\ Len(meetings') = Len(meetings)
         /\ \A i \in DOMAIN meetings :
              /\ meetings'[i].seriesNotes =
                   IF meetings[i].recurringEventId = t.key[2]
                     THEN t.note ELSE meetings[i].seriesNotes
              /\ meetings'[i].id = meetings[i].id
              /\ meetings'[i].order = meetings[i].order
              /\ meetings'[i].responseStatus = meetings[i].responseStatus
              /\ meetings'[i].notes = meetings[i].notes]_vars

\* A series note "y" was saved from P: P and Q of series S1 show it, T of
\* series S2 shows the note of its own series and R none.
C15_Witness ==
  /\ Len(meetings) = 4
  /\ tasks = NoTasks
  /\ \A i \in DOMAIN meetings :
       meetings[i].seriesNotes =
         IF meetings[i].id \in {"P", "Q"} THEN "y"
         ELSE IF meetings[i].id = "T" THEN "x"
         ELSE undefined
  /\ storage[getSeriesNoteStorageKey("S1")] = "y"
  /\ getNoteStorageKey("P") \in DOMAIN storage

\* C18: Cancel issues no write, changes neither the store nor any meeting of
\* the list; and when the editor is opened on a row, the drafts are the notes
\* and the seriesNotes of the meeting of that row as the list has them (the
\* empty text for a meeting without), whatever drafts were there before.
C18_CancelDiscardsDrafts ==
  [][/\ onClose => (storage' = storage /\ tasks' = tasks /\ meetings' = meetings)
     /\ \A row \in DOMAIN meetings :
          handleNotesClick(row) =>
            /\ noteDraft' = IF meetings[row].notes = undefined
                              THEN "" ELSE meetings[row].notes
            /\ seriesNoteDraft' = IF meetings[row].seriesNotes = undefined
                                    THEN "" ELSE meetings[row].seriesNotes]_vars

\* The editor was opened, closed with Cancel and opened again on Q, whose
\* stored note is "y": nothing was written and the drafts are those of Q.
C18_Witness ==
  /\ handled = 3
  /\ tasks = NoTasks
  /\ storage \in PriorNotes
  /\ getNoteStorageKey("Q") \in DOMAIN storage
  /\ selectedMeeting # null
  /\ meeting.id = "Q"
  /\ noteDraft = "y"
  /\ seriesNoteDraft = ""

\* ------------------------------------------------------------------------ C21

\* C21: for every list of remote items and every state of the three toggles,
\* filterMeetings applied to its own result returns that result, and so does
\* the declined filter applied to the list it returned.
C21_FilterIdempotent ==
  call.op = "filter" =>
    /\ ret.filteredAgain = ret.filtered
    /\ ret.visibleAgain = ret.visible

\* A response of which filterMeetings hides some items and the declined
\* filter hides another, with show-free on and a meeting left to show.
C21_Witness ==
  /\ call.op = "filter"
  /\ call.tg.showFree /\ ~call.tg.showDeclined /\ ~call.tg.showSingleAttendee
  /\ Len(ret.filtered) < Len(call.items)
  /\ Len(ret.visible) < Len(ret.filtered)
  /\ Len(ret.visible) > 0

\* ------------------------------------------------------------------------ C22

\* C22: no user action takes back a fetchMeetings call that is in flight, and
\* a list response is applied when it arrives, whatever the selected range is
\* by then: the displayed list becomes the result of that request (meetings
\* of its window, the spinner off), so of two overlapping fetches the one
\* whose response arrives last is the one displayed.
C22_StaleResponseOverwrites ==
  [][/\ \A t \in DOMAIN tasks :
          (handled' = handled + 1 /\ t.kind = "fetchMeetings") =>
             (t \in DOMAIN tasks' /\ tasks'[t] >= tasks[t])
     /\ \A t \in DOMAIN tasks :
          fetchMeetingsResponse(t) =>
            /\ viewStart' = t.range.start
            /\ loading' = FALSE
            /\ selectedRange' = selectedRange
            /\ \A i \in DOMAIN meetings' :
                 \E j \in DOMAIN t.items :
                    /\ t.items[j].id = meetings'[i].id
                    /\ t.range.start <= t.items[j].day
                    /\ t.items[j].day <= t.range.end]_vars

\* Next Week was selected while the fetch of This Week was in flight and the
\* response of This Week arrived last: Next Week is selected, the meetings of
\* This Week are displayed and nothing is in flight.
C22_Witness ==
  /\ handled = 1
  /\ selectedRange = "Next Week"
  /\ viewStart = getDateRange("This Week").start
  /\ tasks = NoTasks
  /\ ~loading
  /\ IdsOf(meetings) = <<"A", "B">>

\* ------------------------------------------------------------------------ C23

\* A response change or a cancellation has been called and is not over.
MutationInFlight ==
  \E t \in DOMAIN tasks : t.kind \in {"updateMeetingResponse", "cancelMeeting"}

\* C23: while a mutation is in flight the response buttons of every displayed
\* row and the delete control of every row the viewer organizes can be
\* clicked (nothing blocks or queues the click); and such a click applies
\* its optimistic change to the list as the first mutation left it, the first
\* mutation staying in flight.
C23_SecondMutationProceeds ==
  /\ [](MutationInFlight /\ ~loading /\ handled < MaxActions =>
          \A row \in DOMAIN meetings :
             /\ \A response \in Responses : ENABLED updateMeetingResponse(row, response)
             /\ meetings[row].organizer.self => ENABLED cancelMeeting(row))
  /\ [][MutationInFlight =>
          \A row \in DOMAIN meetings :
             /\ \A response \in Responses :
                  updateMeetingResponse(row, response) =>
                    /\ meetings' = [meetings EXCEPT ![row].responseStatus = response]
                    /\ \A t \in DOMAIN tasks : t \in DOMAIN tasks' /\ tasks'[t] >= tasks[t]
             /\ cancelMeeting(row) =>
                    /\ Len(meetings') = Len(meetings) - 1
                    /\ \A i \in DOMAIN meetings' :
                         meetings'[i] = meetings[IF i < row THEN i ELSE i + 1]
                    /\ \A t \in DOMAIN tasks : t \in DOMAIN tasks' /\ tasks'[t] >= tasks[t]]_vars

\* Decline was clicked on B and, before its callback ran, the delete control
\* of A: both calls are in flight and the list shows both optimistic changes.
C23_Witness ==
  /\ handled = 2
  /\ \E t, u \in DOMAIN tasks :
       /\ t.kind = "updateMeetingResponse" /\ t.pc = "getAuthToken"
       /\ t.meetingId = "B" /\ t.response = "declined"
       /\ u.kind = "cancelMeeting" /\ u.pc = "getAuthToken" /\ u.meetingId = "A"
  /\ Len(meetings) = 1
  /\ meetings[1].id = "B"
  /\ meetings[1].responseStatus = "declined"

\* ------------------------------------------------------------------------ C24

\* C24: in a session where every response change and every refetch succeeds,
\* whenever nothing is in flight each displayed meeting shows the response
\* status the calendar holds for the viewer.
C24_DisplayedStatusIsRemote ==
  tasks = NoTasks =>
    \A i \in DOMAIN meetings :
       /\ meetings[i].id \in DOMAIN events
       /\ meetings[i].responseStatus = selfResponseStatus(events[meetings[i].id])

\* ------------------------------------------------------------------------ C25

\* C25: whenever nothing is in flight (no fetch, no mutation, no write to the
\* store), the displayed meetings that have a rank in the stored map of the
\* selected range's bucket are displayed in ascending order of that rank.
C25_IdleListAscending ==
  tasks = NoTasks =>
    LET stored == getMeetingOrder(storage, getDateRange(selectedRange).start)
        ids    == IdsOf(meetings)
    IN  \A i, j \in DOMAIN ids :
           (i < j /\ ids[i] \in DOMAIN stored /\ ids[j] \in DOMAIN stored)
              => stored[ids[i]] <= stored[ids[j]]

\* ------------------------------------------------------------------------ C26

\* C26: in every state where a call of fetchMeetings is in flight (called,
\* its response neither applied nor failed), loading is true.
C26_LoadingWhileFetching ==
  (\E t \in DOMAIN tasks : t.kind = "fetchMeetings") => loading

\* ------------------------------------------------------------------------ C27

\* C27: no step of a response change or of a cancellation (the handler, the
\* callback, the refetch) changes the overlay store or issues a write to it.
C27_MutationsLeaveStore ==
  [][MutationStep =>
       /\ storage' = storage
       /\ \A t \in DOMAIN tasks' :
            t.kind = "storeMeetingOrder" => (t \in DOMAIN tasks /\ tasks'[t] = tasks[t])]_vars

\* A was dragged below B and then cancelled: A is gone from the calendar and
\* from the list, and the stored map of the bucket still has its rank.
C27_Witness ==
  /\ tasks = NoTasks
  /\ "A" \notin DOMAIN events
  /\ IdsOf(meetings) = <<"B">>
  /\ reorderKey("This Week") \in DOMAIN storage
  /\ storage[reorderKey("This Week")] = [id \in {"A", "B"} |-> IF id = "A" THEN 1 ELSE 0]

\* ------------------------------------------------------------------------ C28

\* C28: every cancellation in flight is for a meeting the viewer organizes,
\* and every event that is gone from the calendar was one.
C28_CancelOnlyOwnMeetings ==
  /\ \A t \in DOMAIN tasks :
       t.kind = "cancelMeeting" => InitialEvents[t.meetingId].organizer.self
  /\ \A id \in EventIds \ DOMAIN events : InitialEvents[id].organizer.self

\* The delete control of A, which the viewer organizes, was clicked and the
\* DELETE has been answered: A is gone, B (organized by someone else) is left.
C28_Witness ==
  /\ handled = 1
  /\ tasks = NoTasks
  /\ DOMAIN events = EventIds \ {"A"}
  /\ IdsOf(meetings) = <<"B">>
  /\ ~meetings[1].organizer.self

\* ------------------------------------------------------------------------ C29

\* C29: at every `now` both selectors return a window that starts on a Monday
\* at 00:00:00.000 and ends on the Friday four days later at 23:59:59.999;
\* the start of Next Week is seven days after the start of This Week, the two
\* bucket keys differ, and a second evaluation at the same `now` returns the
\* same window.
C29_MondayToFriday ==
  call.op = "getDateRange" =>
    /\ \A range \in {ret.thisWeek, ret.nextWeek} :
         /\ range.start.day % 7 = 1
         /\ range.start.ms = 0
         /\ range.end.day = range.start.day + 4
         /\ range.end.day % 7 = 5
         /\ range.end.ms = 24 * 60 * 60 * 1000 - 1
    /\ ret.nextWeek.start.day = ret.thisWeek.start.day + 7
    /\ ret.nextWeek.start.ms = ret.thisWeek.start.ms
    /\ ret.thisKey # ret.nextKey
    /\ ret.again = ret.thisWeek

\* `now` is a Sunday afternoon: getDay() is 0 and This Week starts on the
\* Monday after it.
C29_Witness ==
  /\ call.op = "getDateRange"
  /\ call.now.day % 7 = 0
  /\ call.now.ms > 0
  /\ ret.thisWeek.start.day = call.now.day + 1
  /\ ret.nextWeek.end.day = call.now.day + 12

\* C30: a logout whose silent getAuthToken yields no token, or whose revoke
\* request rejects or answers a non-OK status, ends there: hasToken is and
\* stays true, the store is left as it was and nothing of the call remains in
\* flight. And hasToken goes from true to false only in a step that leaves no
\* value under 'token' in the store.
C30_FailedLogoutKeepsToken ==
  [][/\ \A t \in DOMAIN tasks, outcome \in RevokeOutcomes \ {"ok"} :
          (handleLogoutToken(t, undefined) \/ handleLogoutRevoke(t, outcome)) =>
            /\ hasToken /\ hasToken'
            /\ storage' = storage
            /\ \A u \in DOMAIN tasks' :
                 u.kind = "handleLogout" => u \in DOMAIN tasks /\ tasks'[u] <= tasks[u]
     /\ (hasToken /\ ~hasToken') => TokenKey \notin DOMAIN storage']_vars

\* A logout has ended on a non-OK answer of the revoke request: the user is
\* still logged in and the token is still stored.
C30_Witness ==
  /\ errors = <<"Failed to revoke token">>
  /\ hasToken
  /\ TokenKey \in DOMAIN storage
  /\ tasks = NoTasks

====
